---- MODULE Spec2Model ----
(***************************************************************************)
(* Model of the polyglot-i18n ReScript core (src/src/core): Locale,        *)
(* Catalog, Plural and I18n.                                               *)
(*                                                                         *)
(* Each source file holds two variants of its module.  The second          *)
(* variant (Belt.Map.String, Locale.t) shadows the first and is the one    *)
(* the ReScript names below refer to; the first variant (Dict.t, string    *)
(* locales) carries the suffix _Dict.  Dict.t is a mutable JavaScript      *)
(* object, so the Dict variant lives on a heap of cells; Belt maps are     *)
(* persistent values and are modelled as TLA+ functions.                   *)
(*                                                                         *)
(* Strings are sequences of one-character strings, option<'a> is a         *)
(* sequence of length at most one.                                         *)
(***************************************************************************)
EXTENDS Integers, Sequences, FiniteSets, TLC

----------------------------------------------------------------------------
(* option, strings *)

None == <<>>

Some(x) == <<x>>

isSome(o) == Len(o) = 1

getOr(o, d) == IF Len(o) = 0 THEN d ELSE o[1]

UpperSeq == <<"A","B","C","D","E","F","G","H","I","J","K","L","M",
              "N","O","P","Q","R","S","T","U","V","W","X","Y","Z">>

LowerSeq == <<"a","b","c","d","e","f","g","h","i","j","k","l","m",
              "n","o","p","q","r","s","t","u","v","w","x","y","z">>

DigitSeq == <<"0","1","2","3","4","5","6","7","8","9">>

Range(s) == {s[i] : i \in DOMAIN s}

Upper == Range(UpperSeq)

Lower == Range(LowerSeq)

Digit == Range(DigitSeq)

toLowerCase(s) ==
  [i \in DOMAIN s |->
     IF s[i] \in Upper
     THEN LowerSeq[CHOOSE j \in DOMAIN UpperSeq : UpperSeq[j] = s[i]]
     ELSE s[i]]

(* String.split with a one-character separator: "" splits to [""] *)
split(s, sep) ==
  LET RECURSIVE go(_, _, _)
      go(i, cur, acc) ==
        IF i > Len(s) THEN Append(acc, cur)
        ELSE IF s[i] = sep THEN go(i + 1, <<>>, Append(acc, cur))
        ELSE go(i + 1, Append(cur, s[i]), acc)
  IN go(1, <<>>, <<>>)

(* Array.join *)
join(parts, sep) ==
  LET RECURSIVE go(_)
      go(i) == IF i > Len(parts) THEN <<>>
               ELSE IF i = Len(parts) THEN parts[i]
               ELSE parts[i] \o <<sep>> \o go(i + 1)
  IN go(1)

(* Array.sliceToEnd(~start), start counted from 0 *)
sliceToEnd(a, start) ==
  IF start >= Len(a) THEN <<>> ELSE SubSeq(a, start + 1, Len(a))

(* template->String.replaceRegExp(%re("/%[sd]/"), r): the first %s or %d *)
replaceFirstPlaceholder(template, r) ==
  LET hits == {i \in 1..(Len(template) - 1) :
                 template[i] = "%" /\ template[i + 1] \in {"s", "d"}}
  IN IF hits = {} THEN template
     ELSE LET i == CHOOSE x \in hits : \A y \in hits : x <= y
          IN SubSeq(template, 1, i - 1) \o r
               \o SubSeq(template, i + 2, Len(template))

----------------------------------------------------------------------------
(* floats: sign, integer part, visible fraction digits as Float.toString   *)
(* prints them (never a trailing zero)                                     *)

Num(neg, int, frac) == [neg |-> neg, int |-> int, frac |-> frac]

Int2Num(k) == Num(FALSE, k, <<>>)

natToString(n) ==
  LET RECURSIVE go(_)
      go(k) == IF k < 10 THEN <<DigitSeq[k + 1]>>
               ELSE go(k \div 10) \o <<DigitSeq[(k % 10) + 1]>>
  IN go(n)

Float_toString(x) ==
  (IF x.neg /\ (x.int # 0 \/ x.frac # <<>>) THEN <<"-">> ELSE <<>>)
    \o natToString(x.int)
    \o (IF x.frac = <<>> THEN <<>> ELSE <<".">> \o x.frac)

(* Float.fromString on a string of digits; "" is NaN, hence None *)
Float_fromString(s) ==
  LET RECURSIVE go(_, _)
      go(i, acc) ==
        IF i > Len(s) THEN acc
        ELSE go(i + 1, acc * 10
                  + (CHOOSE d \in 0..9 : DigitSeq[d + 1] = s[i]))
  IN IF s = <<>> \/ \E i \in DOMAIN s : s[i] \notin Digit THEN None
     ELSE Some(go(1, 0))

abs_float(x) == Num(FALSE, x.int, x.frac)

(* fracPart->String.replaceRegExp(%re("/0+$/"), "") *)
stripTrailingZeros(s) ==
  LET RECURSIVE go(_)
      go(n) == IF n > 0 /\ s[n] = "0" THEN go(n - 1) ELSE SubSeq(s, 1, n)
  IN go(Len(s))

----------------------------------------------------------------------------
(* Plural *)

Zero == "Zero"

One == "One"

Two == "Two"

Few == "Few"

Many == "Many"

Other == "Other"

Categories == {Zero, One, Two, Few, Many, Other}

W_zero == <<"z","e","r","o">>

W_one == <<"o","n","e">>

W_two == <<"t","w","o">>

W_few == <<"f","e","w">>

W_many == <<"m","a","n","y">>

W_other == <<"o","t","h","e","r">>

categoryToString(cat) ==
  CASE cat = Zero -> W_zero
    [] cat = One -> W_one
    [] cat = Two -> W_two
    [] cat = Few -> W_few
    [] cat = Many -> W_many
    [] cat = Other -> W_other

(* slip: the wire names "few" and "many" exchanged *)
categoryFromString_swapped(s) ==
  CASE s = W_zero -> Some(Zero)
    [] s = W_one -> Some(One)
    [] s = W_two -> Some(Two)
    [] s = W_few -> Some(Many)
    [] s = W_many -> Some(Few)
    [] s = W_other -> Some(Other)
    [] OTHER -> None

categoryFromString(s) ==
  CASE s = W_zero -> Some(Zero)
    [] s = W_one -> Some(One)
    [] s = W_two -> Some(Two)
    [] s = W_few -> Some(Few)
    [] s = W_many -> Some(Many)
    [] s = W_other -> Some(Other)
    [] OTHER -> None

getOperands(n) ==
  LET absN == abs_float(n)
      str == Float_toString(absN)
      parts == split(str, ".")
      intPart == IF Len(parts) >= 1 THEN parts[1] ELSE <<"0">>
      fracPart == IF Len(parts) >= 2 THEN parts[2] ELSE <<>>
      fracWithoutZeros == stripTrailingZeros(fracPart)
  IN [n |-> absN,
      i |-> getOr(Float_fromString(intPart), 0),
      v |-> Len(fracPart),
      w |-> Len(fracWithoutZeros),
      f |-> getOr(Float_fromString(fracPart), 0),
      t |-> getOr(Float_fromString(fracWithoutZeros), 0),
      c |-> 0,
      e |-> 0]

Rules_en(op) == IF op.i = 1 /\ op.v = 0 THEN One ELSE Other

Rules_de(op) == Rules_en(op)

Rules_fr(op) == IF op.i = 0 \/ op.i = 1 THEN One ELSE Other

(* slip: the teens are not set apart, 11 counts as One and 12..14 as Few *)
Rules_ru_noTeens(op) ==
  LET mod10 == op.i % 10
  IN IF op.v = 0
     THEN IF mod10 = 1 THEN One
          ELSE IF mod10 >= 2 /\ mod10 <= 4 THEN Few
          ELSE Many
     ELSE Other

Rules_ru(op) ==
  LET mod10 == op.i % 10
      mod100 == op.i % 100
  IN IF op.v = 0
     THEN IF mod10 = 1 /\ mod100 # 11 THEN One
          ELSE IF mod10 >= 2 /\ mod10 <= 4 /\ (mod100 < 12 \/ mod100 > 14)
               THEN Few
          ELSE IF mod10 = 0 \/ (mod10 >= 5 /\ mod10 <= 9)
                    \/ (mod100 >= 11 /\ mod100 <= 14)
               THEN Many
          ELSE Other
     ELSE Other

(* mod_float(op.n, 100.0) keeps the fraction of n; x >= k and x <= k for   *)
(* an integer k are decided on the integer part and the fraction           *)
Rules_ar(op) ==
  LET m == op.n.int % 100
      fr == op.n.frac
      isInt(k) == op.n.int = k /\ fr = <<>>
      ge(k) == m >= k
      le(k) == m < k \/ (m = k /\ fr = <<>>)
  IN IF isInt(0) THEN Zero
     ELSE IF isInt(1) THEN One
     ELSE IF isInt(2) THEN Two
     ELSE IF ge(3) /\ le(10) THEN Few
     ELSE IF ge(11) /\ le(99) THEN Many
     ELSE Other

Rules_pl(op) ==
  LET mod10 == op.i % 10
      mod100 == op.i % 100
  IN IF op.v = 0
     THEN IF op.i = 1 THEN One
          ELSE IF mod10 >= 2 /\ mod10 <= 4 /\ (mod100 < 12 \/ mod100 > 14)
               THEN Few
          ELSE IF (op.i # 1 /\ (mod10 = 0 \/ mod10 = 1))
                    \/ (mod10 >= 5 /\ mod10 <= 9)
                    \/ (mod100 >= 12 /\ mod100 <= 14)
               THEN Many
          ELSE Other
     ELSE Other

Rules_ja(op) == Other

Rules_zh(op) == Rules_ja(op)

Rules_ko(op) == Rules_ja(op)

RuleLangs ==
  {<<"e","n">>, <<"d","e">>, <<"f","r">>, <<"r","u">>, <<"a","r">>,
   <<"p","l">>, <<"j","a">>, <<"z","h">>, <<"k","o">>}

(* getRuleForLocale returns option<operands => category>; the option is    *)
(* modelled by the language of the rule, applyRule applies it              *)
getRuleForLocale(locale) ==
  LET parts == split(locale, "-")
      lang == toLowerCase(IF Len(parts) >= 1 THEN parts[1] ELSE locale)
  IN IF lang \in RuleLangs THEN Some(lang) ELSE None

applyRule(lang, op) ==
  CASE lang = <<"e","n">> -> Rules_en(op)
    [] lang = <<"d","e">> -> Rules_de(op)
    [] lang = <<"f","r">> -> Rules_fr(op)
    [] lang = <<"r","u">> -> Rules_ru(op)
    [] lang = <<"a","r">> -> Rules_ar(op)
    [] lang = <<"p","l">> -> Rules_pl(op)
    [] lang = <<"j","a">> -> Rules_ja(op)
    [] lang = <<"z","h">> -> Rules_zh(op)
    [] lang = <<"k","o">> -> Rules_ko(op)

----------------------------------------------------------------------------
(* The accelerated evaluator is an external module (plural_engine.wasm).   *)
(* A module value says whether it was loaded and which bare languages it   *)
(* implements.  For a language it implements it returns a category wire    *)
(* name: the pure table's category where the pure table has the language,  *)
(* its own Germanic-style rule elsewhere; for any other language it        *)
(* returns a string that is no wire name.                                  *)

bareLanguage(locale) ==
  LET parts == split(locale, "-")
  IN toLowerCase(IF Len(parts) >= 1 THEN parts[1] ELSE locale)

Wasm_evaluate(w, n, locale) ==
  LET lang == bareLanguage(locale)
  IN IF lang \notin w.langs THEN <<>>
     ELSE IF lang \in RuleLangs
          THEN categoryToString(applyRule(lang, getOperands(n)))
     ELSE categoryToString(Rules_en(getOperands(n)))

Wasm_isAvailable(w) == w.present

Wasm_evaluateCategory(w, n, locale) ==
  IF ~w.present THEN None
  ELSE categoryFromString(Wasm_evaluate(w, n, locale))

select(w, n, locale) ==
  LET viaWasm == Wasm_evaluateCategory(w, n, locale)
      rule == getRuleForLocale(locale)
  IN IF isSome(viaWasm) THEN viaWasm[1]
     ELSE IF isSome(rule) THEN applyRule(rule[1], getOperands(n))
     ELSE Other

----------------------------------------------------------------------------
(* Locale *)

languagePattern(s) ==
  /\ Len(s) \in {2, 3}
  /\ \A i \in DOMAIN s : s[i] \in Lower \cup Upper

scriptPattern(s) ==
  /\ Len(s) = 4
  /\ s[1] \in Upper
  /\ \A i \in 2..4 : s[i] \in Lower

regionPattern(s) ==
  \/ (Len(s) = 2 /\ \A i \in DOMAIN s : s[i] \in Upper)
  \/ (Len(s) = 3 /\ \A i \in DOMAIN s : s[i] \in Digit)

(* the region, the variants and the record, once the script is known *)
LanguageTag_parseRegion(lang, rest, script) ==
  LET regionIdx == IF isSome(script) THEN 1 ELSE 0
      region == IF Len(rest) >= regionIdx + 1
                   /\ regionPattern(rest[regionIdx + 1])
                THEN Some(rest[regionIdx + 1]) ELSE None
      variantIdx == regionIdx + (IF isSome(region) THEN 1 ELSE 0)
      variants == sliceToEnd(rest, variantIdx)
  IN Some([language |-> toLowerCase(lang),
           script |-> script,
           region |-> region,
           variants |-> variants])

(* the script, from the parts after the language *)
LanguageTag_parseScript(lang, rest) ==
  LanguageTag_parseRegion(lang, rest,
                          IF Len(rest) >= 1 /\ scriptPattern(rest[1])
                          THEN Some(rest[1]) ELSE None)

LanguageTag_parseParts(parts) ==
  IF Len(parts) = 0 THEN None
  ELSE IF ~languagePattern(parts[1]) THEN None
  ELSE LanguageTag_parseScript(parts[1], sliceToEnd(parts, 1))

LanguageTag_parse(tag) == LanguageTag_parseParts(split(tag, "-"))

(* slip: the parts are joined with the underscore of POSIX locale names *)
LanguageTag_toString_underscore(tag) ==
  join(<<tag.language>> \o tag.script \o tag.region \o tag.variants, "_")

LanguageTag_toString(tag) ==
  join(<<tag.language>> \o tag.script \o tag.region \o tag.variants, "-")

(* Option.map(tag => {tag, raw: LanguageTag.toString(tag)}) *)
Locale_ofTag(tag) ==
  IF isSome(tag)
  THEN Some([tag |-> tag[1], raw |-> LanguageTag_toString(tag[1])])
  ELSE None

Locale_fromString(s) == Locale_ofTag(LanguageTag_parse(s))

Locale_toString(locale) == locale.raw

(* the first variant of the file: switch parts { [] | [lang, ...rest] if   *)
(* the language pattern matches | _ }                                      *)
LanguageTag_parse_First(tag) ==
  LanguageTag_parseParts(split(tag, "-"))

Locale_fromString_First(s) == Locale_ofTag(LanguageTag_parse_First(s))

Locale_language(locale) == locale.tag.language

Locale_parent(locale) ==
  IF isSome(locale.tag.region) THEN Locale_fromString(locale.tag.language)
  ELSE IF isSome(locale.tag.script) THEN Locale_fromString(locale.tag.language)
  ELSE None

Locale_parent_First(locale) ==
  IF isSome(locale.tag.region)
  THEN Locale_fromString_First(locale.tag.language)
  ELSE IF isSome(locale.tag.script)
  THEN Locale_fromString_First(locale.tag.language)
  ELSE None

(* the while loop: push parent(current) while there is one *)
RECURSIVE fallbackLoop(_, _)
fallbackLoop(current, result) ==
  IF isSome(Locale_parent(current))
  THEN fallbackLoop(Locale_parent(current)[1],
                    Append(result, Locale_parent(current)[1]))
  ELSE result

Locale_fallbackChain(locale) == fallbackLoop(locale, <<locale>>)

RECURSIVE build_First(_, _)
build_First(current, acc) ==
  IF isSome(Locale_parent_First(current))
  THEN build_First(Locale_parent_First(current)[1], Append(acc, current))
  ELSE Append(acc, current)

Locale_fallbackChain_First(locale) == build_First(locale, <<>>)

Locale_eq(a, b) == a.raw = b.raw

selectForLocale(w, n, locale) == select(w, n, Locale_toString(locale))

----------------------------------------------------------------------------
(* result<'a, string>, Belt.Map.String / Dict contents, JSON values *)

Ok(x) == [ok |-> TRUE, val |-> x]

Error(e) == [ok |-> FALSE, err |-> e]

EmptyMap == <<>>

MapGet(m, k) == IF k \in DOMAIN m THEN Some(m[k]) ELSE None

MapSet(m, k, v) == [x \in (DOMAIN m) \cup {k} |-> IF x = k THEN v ELSE m[x]]

JString(s) == [j |-> "string", s |-> s]

JObject(o) == [j |-> "object", obj |-> o]

JArray == [j |-> "array"]

JNumber == [j |-> "number"]

JBool == [j |-> "boolean"]

JNull == [j |-> "null"]

(* Date.now(): the clock value is not observed by any operation *)
Date_now == "now"

----------------------------------------------------------------------------
(* Catalog, Belt.Map.String variant *)

Simple(s) == [type |-> "Simple", s |-> s]

Plural(zero, one, two, few, many, other) ==
  [type |-> "Plural", zero |-> zero, one |-> one, two |-> two,
   few |-> few, many |-> many, other |-> other]

Nested(t) == [type |-> "Nested", nested |-> t]

Catalog_empty(locale) ==
  [locale |-> locale,
   translations |-> EmptyMap,
   metadata |-> [version |-> None, lastModified |-> None, source |-> None]]

RECURSIVE traverse(_, _)
traverse(translations, path) ==
  IF Len(path) = 0 THEN None
  ELSE IF Len(path) = 1 THEN MapGet(translations, path[1])
  ELSE LET h == MapGet(translations, Head(path))
       IN IF isSome(h) /\ h[1].type = "Nested"
          THEN traverse(h[1].nested, Tail(path))
          ELSE None

Catalog_get(catalog, key) == traverse(catalog.translations, split(key, "."))

Catalog_getString(catalog, key) ==
  LET r == Catalog_get(catalog, key)
  IN IF isSome(r) /\ r[1].type = "Simple" THEN Some(r[1].s)
     ELSE IF isSome(r) /\ r[1].type = "Plural" THEN Some(r[1].other)
     ELSE None

RECURSIVE updateNested(_, _, _)
updateNested(translations, path, value) ==
  IF Len(path) = 0 THEN translations
  ELSE IF Len(path) = 1 THEN MapSet(translations, path[1], value)
  ELSE LET h == MapGet(translations, Head(path))
           existing == IF isSome(h) /\ h[1].type = "Nested"
                       THEN h[1].nested ELSE EmptyMap
           updated == updateNested(existing, Tail(path), value)
       IN MapSet(translations, Head(path), Nested(updated))

Catalog_set(catalog, key, value) ==
  [locale |-> catalog.locale,
   translations |-> updateNested(catalog.translations, split(key, "."), value),
   metadata |-> [catalog.metadata EXCEPT !.lastModified = Some(Date_now)]]

Catalog_has(catalog, key) == isSome(Catalog_get(catalog, key))

mergeTranslations(a, b) ==
  LET allKeys == (DOMAIN a) \cup (DOMAIN b)
  IN [key \in allKeys |-> IF key \in DOMAIN b THEN b[key] ELSE a[key]]

Catalog_merge(base, overlay) ==
  [locale |-> overlay.locale,
   translations |-> mergeTranslations(base.translations, overlay.translations),
   metadata |-> overlay.metadata]

(* getStr inside parseValue *)
getStr(obj, key) ==
  IF key \in DOMAIN obj /\ obj[key].j = "string" THEN Some(obj[key].s)
  ELSE None

RECURSIVE parseValue(_)
parseValue(json) ==
  IF json.j = "string" THEN Some(Simple(json.s))
  ELSE IF json.j = "object"
  THEN LET obj == json.obj
           hasPlural == W_other \in DOMAIN obj
       IN IF hasPlural
          THEN IF isSome(getStr(obj, W_other))
               THEN Some(Plural(getStr(obj, W_zero), getStr(obj, W_one),
                                getStr(obj, W_two), getStr(obj, W_few),
                                getStr(obj, W_many), getStr(obj, W_other)[1]))
               ELSE None
          ELSE LET kept == {k \in DOMAIN obj : isSome(parseValue(obj[k]))}
               IN Some(Nested([k \in kept |-> parseValue(obj[k])[1]]))
  ELSE None

(* the reduce over the root object's entries *)
parseRoot(obj) ==
  LET kept == {k \in DOMAIN obj : isSome(parseValue(obj[k]))}
  IN [k \in kept |-> parseValue(obj[k])[1]]

(* slip: the root test accepts everything whose typeof is "object" *)
Catalog_fromJson_arrayOk(locale, json) ==
  IF json.j \in {"object", "array", "null"}
  THEN Ok([locale |-> locale,
           translations |-> IF json.j = "object" THEN parseRoot(json.obj)
                            ELSE EmptyMap,
           metadata |-> [version |-> None,
                         lastModified |-> Some(Date_now),
                         source |-> None]])
  ELSE Error("Expected JSON object at root")

Catalog_fromJson(locale, json) ==
  IF json.j = "object"
  THEN Ok([locale |-> locale,
           translations |-> parseRoot(json.obj),
           metadata |-> [version |-> None,
                         lastModified |-> Some(Date_now),
                         source |-> None]])
  ELSE Error("Expected JSON object at root")

(* the object toJson writes for a Plural value: the present forms *)
pluralToJson(value) ==
  LET forms == <<W_zero, W_one, W_two, W_few, W_many>>
      vals == <<value.zero, value.one, value.two, value.few, value.many>>
      present == {i \in 1..5 : isSome(vals[i])}
  IN JObject([key \in {forms[i] : i \in present} \cup {W_other} |->
                IF key = W_other THEN JString(value.other)
                ELSE JString(vals[CHOOSE i \in present : forms[i] = key][1])])

RECURSIVE valueToJson(_)
valueToJson(value) ==
  IF value.type = "Simple" THEN JString(value.s)
  ELSE IF value.type = "Plural" THEN pluralToJson(value)
  ELSE JObject([key \in DOMAIN value.nested |-> valueToJson(value.nested[key])])

Catalog_toJson(catalog) ==
  JObject([key \in DOMAIN catalog.translations |->
             valueToJson(catalog.translations[key])])

----------------------------------------------------------------------------
(* Catalog, Dict variant.  A Dict.t is a heap cell; h is the heap (a       *)
(* sequence of cells), an operation that allocates returns the new heap    *)
(* in .h and its value in .v.  The dictionaries inside Nested values are   *)
(* written only while fromJson builds them and are kept as values.         *)

HV(h, v) == [h |-> h, v |-> v]

Catalog_empty_Dict(h, locale) ==
  HV(Append(h, EmptyMap),
     [locale |-> locale,
      translations |-> Len(h) + 1,
      metadata |-> [version |-> None, lastModified |-> None,
                    source |-> None]])

RECURSIVE traverse_Dict(_, _, _)
traverse_Dict(translations, path, idx) ==
  IF idx >= Len(path) THEN None
  ELSE IF idx = Len(path) - 1 THEN MapGet(translations, path[idx + 1])
  ELSE LET r == MapGet(translations, path[idx + 1])
       IN IF isSome(r) /\ r[1].type = "Nested"
          THEN traverse_Dict(r[1].nested, path, idx + 1)
          ELSE None

Catalog_get_Dict(h, catalog, key) ==
  LET parts == split(key, ".")
  IN IF Len(parts) = 0 THEN None
     ELSE traverse_Dict(h[catalog.translations], parts, 0)

Catalog_getString_Dict(h, catalog, key) ==
  LET r == Catalog_get_Dict(h, catalog, key)
  IN IF isSome(r) /\ r[1].type = "Simple" THEN Some(r[1].s)
     ELSE IF isSome(r) /\ r[1].type = "Plural" THEN Some(r[1].other)
     ELSE None

Catalog_set_Dict(h, catalog, key, value) ==
  LET newTranslations == MapSet(h[catalog.translations], key, value)
  IN HV(Append(h, newTranslations),
        [locale |-> catalog.locale,
         translations |-> Len(h) + 1,
         metadata |-> [catalog.metadata EXCEPT
                         !.lastModified = Some(Date_now)]])

Catalog_has_Dict(h, catalog, key) == isSome(Catalog_get_Dict(h, catalog, key))

Catalog_merge_Dict(h, base, overlay) ==
  LET b == h[base.translations]
      o == h[overlay.translations]
      result == [key \in (DOMAIN b) \cup (DOMAIN o) |->
                   IF key \in DOMAIN o THEN o[key] ELSE b[key]]
  IN HV(Append(h, result),
        [locale |-> overlay.locale,
         translations |-> Len(h) + 1,
         metadata |-> overlay.metadata])

Catalog_fromJson_Dict(h, locale, json) ==
  IF json.j = "object"
  THEN HV(Append(h, parseRoot(json.obj)),
          Ok([locale |-> locale,
              translations |-> Len(h) + 1,
              metadata |-> [version |-> None,
                            lastModified |-> Some(Date_now),
                            source |-> None]]))
  ELSE HV(h, Error("Expected JSON object at root"))

----------------------------------------------------------------------------
(* I18n, Belt.Map.String variant *)

Config_make ==
  [locales |-> <<>>, defaultLocale |-> None, fallbacks |-> <<>>,
   objectNotation |-> FALSE, missingKeyHandler |-> None]

withLocales(builder, locales) == [builder EXCEPT !.locales = locales]

withDefaultLocale(builder, locale) ==
  [builder EXCEPT !.defaultLocale = Some(locale)]

withFallback(builder, from, to_) ==
  [builder EXCEPT !.fallbacks = @ \o << <<from, to_>> >>]

withObjectNotation(builder, enabled) ==
  [builder EXCEPT !.objectNotation = enabled]

withMissingKeyHandler(builder, handler) ==
  [builder EXCEPT !.missingKeyHandler = Some(handler)]

(* builder.locales->Array.filterMap(Locale.fromString) *)
filterMapLocales(tags) ==
  LET RECURSIVE go(_)
      go(i) == IF i > Len(tags) THEN <<>>
               ELSE Locale_fromString(tags[i]) \o go(i + 1)
  IN go(1)

(* the reduce over builder.fallbacks *)
buildFallbacks(pairs) ==
  LET RECURSIVE go(_, _)
      go(i, acc) ==
        IF i > Len(pairs) THEN acc
        ELSE LET f == Locale_fromString(pairs[i][1])
                 t == Locale_fromString(pairs[i][2])
             IN IF isSome(f) /\ isSome(t)
                THEN go(i + 1, MapSet(acc, Locale_toString(f[1]), t[1]))
                ELSE go(i + 1, acc)
  IN go(1, EmptyMap)

(* slip: the default is taken from the end of the locale list *)
Config_build_lastLocale(builder) ==
  LET locales == filterMapLocales(builder.locales)
  IN IF Len(locales) = 0 THEN Error("At least one valid locale is required")
     ELSE LET defaultLocale ==
                IF isSome(builder.defaultLocale)
                THEN Locale_fromString(builder.defaultLocale[1])
                ELSE Some(locales[Len(locales)])
          IN IF ~isSome(defaultLocale) THEN Error("Invalid default locale")
             ELSE Ok([locales |-> locales,
                      defaultLocale |-> defaultLocale[1],
                      fallbacks |-> buildFallbacks(builder.fallbacks),
                      objectNotation |-> builder.objectNotation,
                      missingKeyHandler |-> builder.missingKeyHandler])

Config_build(builder) ==
  LET locales == filterMapLocales(builder.locales)
  IN IF Len(locales) = 0 THEN Error("At least one valid locale is required")
     ELSE LET defaultLocale ==
                IF isSome(builder.defaultLocale)
                THEN Locale_fromString(builder.defaultLocale[1])
                ELSE Some(locales[1])
          IN IF ~isSome(defaultLocale) THEN Error("Invalid default locale")
             ELSE Ok([locales |-> locales,
                      defaultLocale |-> defaultLocale[1],
                      fallbacks |-> buildFallbacks(builder.fallbacks),
                      objectNotation |-> builder.objectNotation,
                      missingKeyHandler |-> builder.missingKeyHandler])

make(config) ==
  LET RECURSIVE go(_, _)
      go(i, acc) ==
        IF i > Len(config.locales) THEN acc
        ELSE go(i + 1, MapSet(acc, Locale_toString(config.locales[i]),
                              Catalog_empty(config.locales[i])))
  IN [config |-> config,
      catalogs |-> go(1, EmptyMap),
      currentLocale |-> config.defaultLocale]

fromBuilder(builder) ==
  LET c == Config_build(builder)
  IN IF c.ok THEN Ok(make(c.val)) ELSE c

getLocale(i18n) == i18n.currentLocale

setLocale(i18n, locale) ==
  LET fb == MapGet(i18n.config.fallbacks, Locale_toString(locale))
      resolvedLocale ==
        IF \E i \in DOMAIN i18n.config.locales :
             Locale_eq(i18n.config.locales[i], locale)
        THEN locale
        ELSE IF isSome(fb) THEN fb[1]
        ELSE i18n.config.defaultLocale
  IN [i18n EXCEPT !.currentLocale = resolvedLocale]

setLocaleString(i18n, locale) ==
  LET l == Locale_fromString(locale)
  IN IF isSome(l) THEN setLocale(i18n, l[1]) ELSE i18n

getCatalog(i18n, locale) == MapGet(i18n.catalogs, Locale_toString(locale))

loadTranslations(i18n, locale, json) ==
  LET parsed == Catalog_fromJson(locale, json)
  IN IF ~parsed.ok THEN parsed
     ELSE LET key == Locale_toString(locale)
              existingCatalog ==
                getOr(MapGet(i18n.catalogs, key), Catalog_empty(locale))
              mergedCatalog == Catalog_merge(existingCatalog, parsed.val)
          IN Ok([i18n EXCEPT !.catalogs = MapSet(@, key, mergedCatalog)])

(* missing-key handlers are caller-supplied functions; "bracket" wraps the *)
(* key, "locale" prefixes it with the locale                               *)
Handlers == {"bracket", "locale"}

applyHandler(handler, locale, key) ==
  IF handler = "bracket" THEN <<"[">> \o key \o <<"]">>
  ELSE Locale_toString(locale) \o <<":">> \o key

(* slip: the default locale is consulted before the configured fallback *)
localeChain_defaultFirst(i18n) ==
  LET locale == i18n.currentLocale
      fb == MapGet(i18n.config.fallbacks, Locale_toString(locale))
      chain0 == IF Locale_eq(locale, i18n.config.defaultLocale)
                THEN <<locale>> ELSE <<locale, i18n.config.defaultLocale>>
  IN IF isSome(fb) THEN chain0 \o <<fb[1]>> ELSE chain0

(* the chain of locales translate consults *)
localeChain(i18n) ==
  LET locale == i18n.currentLocale
      fb == MapGet(i18n.config.fallbacks, Locale_toString(locale))
      chain0 == IF isSome(fb) THEN <<locale, fb[1]>> ELSE <<locale>>
  IN IF ~(\E i \in DOMAIN chain0 :
            Locale_eq(chain0[i], i18n.config.defaultLocale))
     THEN chain0 \o <<i18n.config.defaultLocale>>
     ELSE chain0

(* the reduce over the chain: the first catalog that has a string wins *)
lookupChain(i18n, chain, key) ==
  LET RECURSIVE go(_, _)
      go(i, acc) ==
        IF i > Len(chain) THEN acc
        ELSE IF isSome(acc) THEN go(i + 1, acc)
        ELSE LET c == MapGet(i18n.catalogs, Locale_toString(chain[i]))
             IN go(i + 1, IF isSome(c) THEN Catalog_getString(c[1], key)
                          ELSE None)
  IN go(1, None)

(* slip: the missing-key handler is never called *)
translate_noHandler(i18n, key) ==
  LET result == lookupChain(i18n, localeChain(i18n), key)
  IN IF isSome(result) THEN result[1] ELSE key

translate(i18n, key) ==
  LET result == lookupChain(i18n, localeChain(i18n), key)
  IN IF isSome(result) THEN result[1]
     ELSE IF isSome(i18n.config.missingKeyHandler)
          THEN applyHandler(i18n.config.missingKeyHandler[1],
                            i18n.currentLocale, key)
     ELSE key

(* slip: a form missing from the entry falls back to the plural key *)
translatePlural_noOther(w, i18n, singular, plural, count) ==
  LET locale == i18n.currentLocale
      category == selectForLocale(w, count, locale)
      c == MapGet(i18n.catalogs, Locale_toString(locale))
      catalogResult == IF isSome(c) THEN Catalog_get(c[1], singular) ELSE None
      template ==
        IF isSome(catalogResult) /\ catalogResult[1].type = "Plural"
        THEN LET e == catalogResult[1]
             IN CASE category = Zero -> getOr(e.zero, plural)
                  [] category = One -> getOr(e.one, plural)
                  [] category = Two -> getOr(e.two, plural)
                  [] category = Few -> getOr(e.few, plural)
                  [] category = Many -> getOr(e.many, plural)
                  [] category = Other -> e.other
        ELSE IF isSome(catalogResult) /\ catalogResult[1].type = "Simple"
        THEN catalogResult[1].s
        ELSE IF category = One THEN singular ELSE plural
  IN replaceFirstPlaceholder(template, Float_toString(count))

(* slip: the literal fallback takes the plural key only for Other *)
translatePlural_otherOnly(w, i18n, singular, plural, count) ==
  LET locale == i18n.currentLocale
      category == selectForLocale(w, count, locale)
      c == MapGet(i18n.catalogs, Locale_toString(locale))
      catalogResult == IF isSome(c) THEN Catalog_get(c[1], singular) ELSE None
      template ==
        IF isSome(catalogResult) /\ catalogResult[1].type = "Plural"
        THEN LET e == catalogResult[1]
             IN CASE category = Zero -> getOr(e.zero, e.other)
                  [] category = One -> getOr(e.one, e.other)
                  [] category = Two -> getOr(e.two, e.other)
                  [] category = Few -> getOr(e.few, e.other)
                  [] category = Many -> getOr(e.many, e.other)
                  [] category = Other -> e.other
        ELSE IF isSome(catalogResult) /\ catalogResult[1].type = "Simple"
        THEN catalogResult[1].s
        ELSE IF category = Other THEN plural ELSE singular
  IN replaceFirstPlaceholder(template, Float_toString(count))

translatePlural(w, i18n, singular, plural, count) ==
  LET locale == i18n.currentLocale
      category == selectForLocale(w, count, locale)
      c == MapGet(i18n.catalogs, Locale_toString(locale))
      catalogResult == IF isSome(c) THEN Catalog_get(c[1], singular) ELSE None
      template ==
        IF isSome(catalogResult) /\ catalogResult[1].type = "Plural"
        THEN LET e == catalogResult[1]
             IN CASE category = Zero -> getOr(e.zero, e.other)
                  [] category = One -> getOr(e.one, e.other)
                  [] category = Two -> getOr(e.two, e.other)
                  [] category = Few -> getOr(e.few, e.other)
                  [] category = Many -> getOr(e.many, e.other)
                  [] category = Other -> e.other
        ELSE IF isSome(catalogResult) /\ catalogResult[1].type = "Simple"
        THEN catalogResult[1].s
        ELSE IF category = One THEN singular ELSE plural
  IN replaceFirstPlaceholder(template, Float_toString(count))

hasKey(i18n, key) ==
  LET c == MapGet(i18n.catalogs, Locale_toString(i18n.currentLocale))
  IN IF isSome(c) THEN Catalog_has(c[1], key) ELSE FALSE

----------------------------------------------------------------------------
(* I18n, Dict variant: locales are plain strings, the builder's fallbacks, *)
(* an engine's catalogs and a catalog's translations are heap cells        *)

Config_make_Dict(h) ==
  HV(Append(h, EmptyMap),
     [locales |-> <<>>, defaultLocale |-> None, fallbacks |-> Len(h) + 1,
      objectNotation |-> FALSE])

withLocales_Dict(h, b, locales) == HV(h, [b EXCEPT !.locales = locales])

withDefaultLocale_Dict(h, b, locale) ==
  HV(h, [b EXCEPT !.defaultLocale = Some(locale)])

withFallback_Dict(h, b, from, to_) ==
  HV([h EXCEPT ![b.fallbacks] = MapSet(@, from, to_)], b)

withObjectNotation_Dict(h, b, enabled) ==
  HV(h, [b EXCEPT !.objectNotation = enabled])

Config_build_Dict(b) ==
  IF Len(b.locales) = 0 THEN Error("At least one locale required")
  ELSE Ok([locales |-> b.locales,
           defaultLocale |-> getOr(b.defaultLocale, b.locales[1]),
           fallbacks |-> b.fallbacks,
           objectNotation |-> b.objectNotation])

(* catalogs = Dict.make(), then one Catalog.empty per configured locale *)
make_Dict(h, config) ==
  LET catalogs == Len(h) + 1
      RECURSIVE go(_, _)
      go(i, hp) ==
        IF i > Len(config.locales) THEN hp
        ELSE LET e == Catalog_empty_Dict(hp, config.locales[i])
             IN go(i + 1, [e.h EXCEPT ![catalogs] =
                             MapSet(@, config.locales[i], e.v)])
  IN HV(go(1, Append(h, EmptyMap)),
        [config |-> config, catalogs |-> catalogs,
         currentLocale |-> config.defaultLocale])

fromBuilder_Dict(h, b) ==
  LET c == Config_build_Dict(b)
  IN IF c.ok THEN LET m == make_Dict(h, c.val) IN HV(m.h, Ok(m.v))
     ELSE HV(h, c)

getLocale_Dict(i18n) == i18n.currentLocale

setLocale_Dict(h, i18n, locale) ==
  LET resolved ==
        IF \E i \in DOMAIN i18n.config.locales : i18n.config.locales[i] = locale
        THEN locale
        ELSE getOr(MapGet(h[i18n.config.fallbacks], locale),
                   i18n.config.defaultLocale)
  IN HV(h, [i18n EXCEPT !.currentLocale = resolved])

(* slip: the merged catalog is stored into i18n.catalogs itself instead   *)
(* of into a Dict.copy of it                                               *)
loadTranslations_Dict_inPlace(h, i18n, locale, json) ==
  LET parsed == Catalog_fromJson_Dict(h, locale, json)
  IN IF ~parsed.v.ok THEN parsed
     ELSE LET fresh == Catalog_empty_Dict(parsed.h, locale)
              existing == getOr(MapGet(fresh.h[i18n.catalogs], locale), fresh.v)
              merged == Catalog_merge_Dict(fresh.h, existing, parsed.v.val)
          IN HV([merged.h EXCEPT ![i18n.catalogs] = MapSet(@, locale, merged.v)],
                Ok(i18n))

loadTranslations_Dict(h, i18n, locale, json) ==
  LET parsed == Catalog_fromJson_Dict(h, locale, json)
  IN IF ~parsed.v.ok THEN parsed
     ELSE LET fresh == Catalog_empty_Dict(parsed.h, locale)
              existing == getOr(MapGet(fresh.h[i18n.catalogs], locale), fresh.v)
              merged == Catalog_merge_Dict(fresh.h, existing, parsed.v.val)
              newCatalogs == MapSet(merged.h[i18n.catalogs], locale, merged.v)
          IN HV(Append(merged.h, newCatalogs),
                Ok([i18n EXCEPT !.catalogs = Len(merged.h) + 1]))

tryLocale_Dict(h, i18n, locale, key) ==
  LET c == MapGet(h[i18n.catalogs], locale)
  IN IF isSome(c) THEN Catalog_getString_Dict(h, c[1], key) ELSE None

translate_Dict(h, i18n, key) ==
  LET cur == tryLocale_Dict(h, i18n, i18n.currentLocale, key)
      fb == MapGet(h[i18n.config.fallbacks], i18n.currentLocale)
      viaFb == IF isSome(fb) THEN tryLocale_Dict(h, i18n, fb[1], key) ELSE None
      def == tryLocale_Dict(h, i18n, i18n.config.defaultLocale, key)
  IN IF isSome(cur) THEN cur[1]
     ELSE IF isSome(viaFb) THEN viaFb[1]
     ELSE IF isSome(def) THEN def[1]
     ELSE key

translatePlural_Dict(w, i18n, singular, plural, count) ==
  LET category == select(w, count, i18n.currentLocale)
      template == IF category = One THEN singular ELSE plural
  IN replaceFirstPlaceholder(template, Float_toString(count))

hasKey_Dict(h, i18n, key) ==
  LET c == MapGet(h[i18n.catalogs], i18n.currentLocale)
  IN IF isSome(c) THEN Catalog_has_Dict(h, c[1], key) ELSE FALSE

----------------------------------------------------------------------------
(* I18n.Interpolate.  A Js.Dict.t<string> / Dict.t<string> of named values  *)
(* is the sequence of its entries <<name, value>> in the order the object   *)
(* enumerates them (insertion order), names distinct.                       *)

(* \w of a JavaScript regular expression *)
isWordChar(c) == c \in Upper \cup Lower \cup Digit \cup {"_"}

dictGet(values, key) ==
  LET hits == {i \in DOMAIN values : values[i][1] = key}
  IN IF hits = {} THEN None ELSE Some(values[CHOOSE i \in hits : TRUE][2])

(* index of the first character at or after i that is not a word character *)
RECURSIVE wordEnd(_, _)
wordEnd(template, i) ==
  IF i <= Len(template) /\ isWordChar(template[i]) THEN wordEnd(template, i + 1)
  ELSE i

(* template->String.replaceRegExp(mustachePattern, (match, _) => ...):     *)
(* one pass over the matches of /\{\{(\w+)\}\}/g, the callback's result is  *)
(* inserted as it is and is not scanned again                               *)
RECURSIVE mustacheFrom(_, _, _)
mustacheFrom(template, values, i) ==
  IF i > Len(template) THEN <<>>
  ELSE IF /\ i + 1 <= Len(template)
          /\ template[i] = "{" /\ template[i + 1] = "{"
          /\ wordEnd(template, i + 2) > i + 2
          /\ wordEnd(template, i + 2) + 1 <= Len(template)
          /\ template[wordEnd(template, i + 2)] = "}"
          /\ template[wordEnd(template, i + 2) + 1] = "}"
  THEN getOr(dictGet(values, SubSeq(template, i + 2,
                                    wordEnd(template, i + 2) - 1)),
             SubSeq(template, i, wordEnd(template, i + 2) + 1))
         \o mustacheFrom(template, values, wordEnd(template, i + 2) + 2)
  ELSE <<template[i]>> \o mustacheFrom(template, values, i + 1)

Interpolate_mustache(template, values) == mustacheFrom(template, values, 1)

(* the i-th match of /%([sdfo%])/g: "%%" gives "%", every other match      *)
(* takes args[index] (or stays) and advances index                          *)
RECURSIVE sprintfFrom(_, _, _, _)
sprintfFrom(template, args, i, index) ==
  IF i > Len(template) THEN <<>>
  ELSE IF /\ i < Len(template)
          /\ template[i] = "%"
          /\ template[i + 1] \in {"s", "d", "f", "o", "%"}
  THEN IF template[i + 1] = "%"
       THEN <<"%">> \o sprintfFrom(template, args, i + 2, index)
       ELSE (IF index < Len(args) THEN args[index + 1]
             ELSE SubSeq(template, i, i + 1))
              \o sprintfFrom(template, args, i + 2, index + 1)
  ELSE <<template[i]>> \o sprintfFrom(template, args, i + 1, index)

Interpolate_sprintf(template, args) == sprintfFrom(template, args, 1, 0)

translateWith(i18n, key, values) ==
  Interpolate_mustache(translate(i18n, key), values)

translateArgs(i18n, key, args) ==
  Interpolate_sprintf(translate(i18n, key), args)

(* Dict variant.  A replacement given as a string goes through             *)
(* GetSubstitution: $$ is "$", $& the match, $` and $' the text before and  *)
(* after it; the patterns here have no groups, so $1.. stay as written      *)
RECURSIVE getSubstitution(_, _, _, _, _)
getSubstitution(replacement, str, position, matchLength, k) ==
  IF k > Len(replacement) THEN <<>>
  ELSE IF replacement[k] = "$" /\ k < Len(replacement)
          /\ replacement[k + 1] \in {"$", "&", "`", "'"}
  THEN (CASE replacement[k + 1] = "$" -> <<"$">>
          [] replacement[k + 1] = "&" ->
               SubSeq(str, position, position + matchLength - 1)
          [] replacement[k + 1] = "`" -> SubSeq(str, 1, position - 1)
          [] replacement[k + 1] = "'" ->
               SubSeq(str, position + matchLength, Len(str)))
         \o getSubstitution(replacement, str, position, matchLength, k + 2)
  ELSE <<replacement[k]>>
         \o getSubstitution(replacement, str, position, matchLength, k + 1)

(* String.replaceAll(search, replacement) with a non-empty search string *)
RECURSIVE replaceAllFrom(_, _, _, _)
replaceAllFrom(str, search, replacement, i) ==
  IF i > Len(str) THEN <<>>
  ELSE IF /\ i + Len(search) - 1 <= Len(str)
          /\ SubSeq(str, i, i + Len(search) - 1) = search
  THEN getSubstitution(replacement, str, i, Len(search), 1)
         \o replaceAllFrom(str, search, replacement, i + Len(search))
  ELSE <<str[i]>> \o replaceAllFrom(str, search, replacement, i + 1)

replaceAll(str, search, replacement) ==
  replaceAllFrom(str, search, replacement, 1)

(* String.replaceRegExp(%re("/%[sd]/"), replacement): the first match only *)
replaceRegExp_sd(str, replacement) ==
  LET hits == {i \in 1..(Len(str) - 1) :
                 str[i] = "%" /\ str[i + 1] \in {"s", "d"}}
  IN IF hits = {} THEN str
     ELSE SubSeq(str, 1, (CHOOSE x \in hits : \A y \in hits : x <= y) - 1)
            \o getSubstitution(replacement, str,
                               CHOOSE x \in hits : \A y \in hits : x <= y, 2, 1)
            \o SubSeq(str, (CHOOSE x \in hits : \A y \in hits : x <= y) + 2,
                      Len(str))

(* values->Dict.forEachWithKey: one replaceAll per entry, on the result of *)
(* the one before                                                           *)
RECURSIVE mustacheEach_Dict(_, _, _)
mustacheEach_Dict(result, values, n) ==
  IF n > Len(values) THEN result
  ELSE mustacheEach_Dict(
         replaceAll(result, <<"{", "{">> \o values[n][1] \o <<"}", "}">>,
                    values[n][2]),
         values, n + 1)

Interpolate_mustache_Dict(template, values) ==
  mustacheEach_Dict(template, values, 1)

(* args->Array.forEach: one replaceRegExp per argument *)
RECURSIVE sprintfEach_Dict(_, _, _)
sprintfEach_Dict(result, args, n) ==
  IF n > Len(args) THEN result
  ELSE sprintfEach_Dict(replaceRegExp_sd(result, args[n]), args, n + 1)

Interpolate_sprintf_Dict(template, args) == sprintfEach_Dict(template, args, 1)

translateWith_Dict(h, i18n, key, values) ==
  Interpolate_mustache_Dict(translate_Dict(h, i18n, key), values)

translateArgs_Dict(h, i18n, key, args) ==
  Interpolate_sprintf_Dict(translate_Dict(h, i18n, key), args)

----------------------------------------------------------------------------
(* bounds and input sets *)

MaxFallbacks == 1

MaxLoads == 2

MaxCatOps == 2

MaxSaved == 2

T_en == <<"e","n">>

T_ru == <<"r","u">>

T_de == <<"d","e">>

T_enUS == <<"e","n","-","U","S">>

T_bad == <<"e">>

K_hi == <<"h","i">>

K_a == <<"a">>

K_ab == <<"a",".","b">>

K_ac == <<"a",".","c">>

K_zz == <<"z","z">>

K_cat == <<"c","a","t">>

K_scat == <<"%","s"," ","c","a","t">>

K_scats == <<"%","s"," ","c","a","t","s">>

S_A == <<"A">>

S_B == <<"B">>

S_x == <<"x">>

S_y == <<"y">>

P_one == <<"%","d"," ","o","n","e">>

P_other == <<"%","d"," ","o","t","h">>

DocA == JObject(K_hi :> JString(S_A))

DocB == JObject(K_hi :> JString(S_B) @@ K_a :> JObject(<<"b">> :> JString(S_x)))

DocC == JObject(K_a :> JObject(<<"c">> :> JString(S_y)))

DocP ==
  JObject(K_cat :> JObject(W_one :> JString(P_one) @@ W_other :> JString(P_other)))

NonObjectRoots == {JArray, JString(S_A), JNumber, JBool, JNull}

LocaleLists == {<<T_en, T_ru, T_de>>, <<T_en>>, <<T_bad>>}

DefaultInputs == {T_ru}

FallbackInputs == {<<T_ru, T_de>>, <<T_enUS, T_en>>}

HandlerInputs == {"bracket"}

SetLocaleInputs == {T_en, T_ru, T_de, T_enUS}

SetLocaleStringInputs == {T_ru, T_enUS, T_bad}

LoadInputs ==
  {<<T_en, DocA>>, <<T_de, DocB>>, <<T_ru, DocP>>}
    \cup {<<T_en, j>> : j \in NonObjectRoots}

TranslateKeys == {K_hi, K_ab, K_zz, K_cat}

PluralInputs == {<<K_cat, K_scats>>, <<K_scat, K_scats>>, <<K_hi, K_scats>>,
                 <<K_a, K_scats>>}

CountInputs == {Int2Num(1), Int2Num(3)}

WasmAbsent == [present |-> FALSE, langs |-> {}]

WasmEnRu == [present |-> TRUE, langs |-> {T_en, T_ru}]

CatKeys == {K_hi, K_a, K_ab}

CatValues == {Simple(S_A), Plural(None, Some(P_one), None, None, None, P_other)}

CatDocs == {DocA, DocB, DocC, DocP}

ObsKeys == {K_hi, K_a, K_ab, K_ac, K_cat, K_zz}

----------------------------------------------------------------------------
(* state *)

VARIABLES
  impl,     \* "Belt" or "Dict": which variant of the modules runs
  wasm,     \* the accelerated plural evaluator the process loaded
  heap,     \* Dict variant: the Dict.t objects allocated so far
  builder,  \* the Config.builder
  i18n,     \* option: the engine value the caller holds
  cat,      \* option: the catalog value the caller holds
  written,  \* keys passed to Catalog.set or loaded into cat
  saved,    \* values obtained earlier, with what they answered then
  track,    \* whether earlier values are kept in saved
  ops,      \* number of loads / catalog updates performed
  res       \* the last call and its result

vars == <<impl, wasm, heap, builder, i18n, cat, written, saved, track, ops, res>>

(* what a catalog / an engine answers for every key in ObsKeys *)
obsCatalog(h, c) ==
  [k \in ObsKeys |-> IF impl = "Belt" THEN Catalog_get(c, k)
                     ELSE Catalog_get_Dict(h, c, k)]

obsEngine(h, e) ==
  IF impl = "Belt"
  THEN [locale |-> getLocale(e), tr |-> [k \in ObsKeys |-> translate(e, k)]]
  ELSE [locale |-> getLocale_Dict(e),
        tr |-> [k \in ObsKeys |-> translate_Dict(h, e, k)]]

observe(h, kind, v) ==
  IF kind = "catalog" THEN obsCatalog(h, v) ELSE obsEngine(h, v)

keep(kind, v) ==
  IF track
  THEN Append(saved, [kind |-> kind, val |-> v, obs |-> observe(heap, kind, v)])
  ELSE saved

canUpdate == track => Len(saved) < MaxSaved

(* the locale argument of the variant: a Locale.t or a plain string *)
localeArg(tag) == IF impl = "Belt" THEN Locale_fromString(tag)[1] ELSE tag

InitCommon ==
  /\ impl \in {"Belt", "Dict"}
  /\ i18n = None
  /\ cat = None
  /\ written = {}
  /\ saved = <<>>
  /\ ops = 0
  /\ res = [op |-> "none"]
  /\ heap = IF impl = "Belt" THEN <<>> ELSE Config_make_Dict(<<>>).h
  /\ builder = IF impl = "Belt" THEN Config_make ELSE Config_make_Dict(<<>>).v

Init ==
  /\ InitCommon
  /\ wasm \in {WasmAbsent, WasmEnRu}
  /\ track = FALSE

----------------------------------------------------------------------------
(* the builder *)

WithLocalesFrom(lists) ==
  \E ls \in lists :
    /\ i18n = None
    /\ IF impl = "Belt"
       THEN builder' = withLocales(builder, ls) /\ heap' = heap
       ELSE LET r == withLocales_Dict(heap, builder, ls)
            IN builder' = r.v /\ heap' = r.h
    /\ res' = [op |-> "withLocales"]
    /\ UNCHANGED <<impl, wasm, i18n, cat, written, saved, track, ops>>

WithLocales == WithLocalesFrom(LocaleLists)

WithDefaultLocaleFrom(defaults) ==
  \E l \in defaults :
    /\ i18n = None
    /\ IF impl = "Belt"
       THEN builder' = withDefaultLocale(builder, l) /\ heap' = heap
       ELSE LET r == withDefaultLocale_Dict(heap, builder, l)
            IN builder' = r.v /\ heap' = r.h
    /\ res' = [op |-> "withDefaultLocale"]
    /\ UNCHANGED <<impl, wasm, i18n, cat, written, saved, track, ops>>

WithDefaultLocale == WithDefaultLocaleFrom(DefaultInputs)

fallbackCount ==
  IF impl = "Belt" THEN Len(builder.fallbacks)
  ELSE Cardinality(DOMAIN heap[builder.fallbacks])

WithFallback ==
  \E p \in FallbackInputs :
    /\ i18n = None
    /\ fallbackCount < MaxFallbacks
    /\ IF impl = "Belt"
       THEN builder' = withFallback(builder, p[1], p[2]) /\ heap' = heap
       ELSE LET r == withFallback_Dict(heap, builder, p[1], p[2])
            IN builder' = r.v /\ heap' = r.h
    /\ res' = [op |-> "withFallback"]
    /\ UNCHANGED <<impl, wasm, i18n, cat, written, saved, track, ops>>

WithMissingKeyHandler ==
  \E hd \in HandlerInputs :
    /\ i18n = None
    /\ impl = "Belt"
    /\ builder' = withMissingKeyHandler(builder, hd)
    /\ res' = [op |-> "withMissingKeyHandler"]
    /\ UNCHANGED <<impl, wasm, heap, i18n, cat, written, saved, track, ops>>

FromBuilder ==
  /\ i18n = None
  /\ IF impl = "Belt"
     THEN LET r == fromBuilder(builder)
          IN /\ i18n' = IF r.ok THEN Some(r.val) ELSE None
             /\ heap' = heap
             /\ res' = [op |-> "fromBuilder", ok |-> r.ok]
     ELSE LET r == fromBuilder_Dict(heap, builder)
          IN /\ i18n' = IF r.v.ok THEN Some(r.v.val) ELSE None
             /\ heap' = r.h
             /\ res' = [op |-> "fromBuilder", ok |-> r.v.ok]
  /\ UNCHANGED <<impl, wasm, builder, cat, written, saved, track, ops>>

----------------------------------------------------------------------------
(* the engine *)

SetLocale ==
  \E tag \in SetLocaleInputs :
    /\ isSome(i18n)
    /\ canUpdate
    /\ IF impl = "Belt"
       THEN i18n' = Some(setLocale(i18n[1], localeArg(tag))) /\ heap' = heap
       ELSE LET r == setLocale_Dict(heap, i18n[1], tag)
            IN i18n' = Some(r.v) /\ heap' = r.h
    /\ saved' = keep("engine", i18n[1])
    /\ res' = [op |-> "setLocale"]
    /\ UNCHANGED <<impl, wasm, builder, cat, written, track, ops>>

SetLocaleString ==
  \E tag \in SetLocaleStringInputs :
    /\ isSome(i18n)
    /\ canUpdate
    /\ impl = "Belt"
    /\ i18n' = Some(setLocaleString(i18n[1], tag))
    /\ saved' = keep("engine", i18n[1])
    /\ res' = [op |-> "setLocaleString"]
    /\ UNCHANGED <<impl, wasm, heap, builder, cat, written, track, ops>>

(* a successful load hands the caller the new engine; after a failure the  *)
(* caller still holds the engine it passed in                              *)
LoadTranslationsFrom(inputs) ==
  \E in \in inputs :
    /\ isSome(i18n)
    /\ canUpdate
    /\ ops < MaxLoads
    /\ LET r == IF impl = "Belt"
                THEN HV(heap, loadTranslations(i18n[1], localeArg(in[1]), in[2]))
                ELSE loadTranslations_Dict(heap, i18n[1], in[1], in[2])
       IN /\ heap' = r.h
          /\ i18n' = IF r.v.ok THEN Some(r.v.val) ELSE i18n
          /\ ops' = IF r.v.ok THEN ops + 1 ELSE ops
          /\ saved' = IF r.v.ok THEN keep("engine", i18n[1]) ELSE saved
          /\ res' = [op |-> "loadTranslations", locale |-> in[1],
                     json |-> in[2], root |-> in[2].j, ok |-> r.v.ok]
    /\ UNCHANGED <<impl, wasm, builder, cat, written, track>>

LoadTranslations == LoadTranslationsFrom(LoadInputs)

Translate ==
  \E key \in TranslateKeys :
    /\ isSome(i18n)
    /\ ~track
    /\ res' = [op |-> "translate", key |-> key,
               result |-> IF impl = "Belt" THEN translate(i18n[1], key)
                          ELSE translate_Dict(heap, i18n[1], key)]
    /\ UNCHANGED <<impl, wasm, heap, builder, i18n, cat, written, saved, track, ops>>

TranslatePlural ==
  \E p \in PluralInputs, count \in CountInputs :
    /\ isSome(i18n)
    /\ ~track
    /\ res' = [op |-> "translatePlural", singular |-> p[1], plural |-> p[2],
               count |-> count,
               result |-> IF impl = "Belt"
                          THEN translatePlural(wasm, i18n[1], p[1], p[2], count)
                          ELSE translatePlural_Dict(wasm, i18n[1], p[1], p[2],
                                                    count)]
    /\ UNCHANGED <<impl, wasm, heap, builder, i18n, cat, written, saved, track, ops>>

Next ==
  \/ WithLocales
  \/ WithDefaultLocale
  \/ WithFallback
  \/ WithMissingKeyHandler
  \/ FromBuilder
  \/ SetLocale
  \/ SetLocaleString
  \/ LoadTranslations
  \/ Translate
  \/ TranslatePlural

Spec == Init /\ [][Next]_vars

----------------------------------------------------------------------------
(* catalogs handled directly by a caller *)

(* every key a set of translations answers for, containers included *)
RECURSIVE allPaths(_, _)
allPaths(translations, prefix) ==
  UNION {LET full == IF prefix = <<>> THEN k ELSE prefix \o <<".">> \o k
         IN {full} \cup (IF translations[k].type = "Nested"
                         THEN allPaths(translations[k].nested, full)
                         ELSE {})
         : k \in DOMAIN translations}

(* a dotted key and the keys of the containers above it *)
prefixesOf(key) ==
  LET parts == split(key, ".")
  IN {join(SubSeq(parts, 1, i), ".") : i \in 1..Len(parts)}

catGet(h, c, key) ==
  IF impl = "Belt" THEN Catalog_get(c, key) ELSE Catalog_get_Dict(h, c, key)

CatEmpty ==
  /\ cat = None
  /\ IF impl = "Belt"
     THEN cat' = Some(Catalog_empty(localeArg(T_en))) /\ heap' = heap
     ELSE LET r == Catalog_empty_Dict(heap, T_en)
          IN cat' = Some(r.v) /\ heap' = r.h
  /\ res' = [op |-> "empty"]
  /\ UNCHANGED <<impl, wasm, builder, i18n, written, saved, track, ops>>

CatSet ==
  \E key \in CatKeys, value \in CatValues :
    /\ isSome(cat)
    /\ canUpdate
    /\ ops < MaxCatOps
    /\ IF impl = "Belt"
       THEN cat' = Some(Catalog_set(cat[1], key, value)) /\ heap' = heap
       ELSE LET r == Catalog_set_Dict(heap, cat[1], key, value)
            IN cat' = Some(r.v) /\ heap' = r.h
    /\ ops' = ops + 1
    /\ written' = written \cup {key}
    /\ saved' = keep("catalog", cat[1])
    /\ res' = [op |-> "set", key |-> key, value |-> value]
    /\ UNCHANGED <<impl, wasm, builder, i18n, track>>

(* merge(cat, overlay) with an overlay parsed from a JSON document *)
CatMerge ==
  \E doc \in CatDocs :
    /\ isSome(cat)
    /\ canUpdate
    /\ ops < MaxCatOps
    /\ IF impl = "Belt"
       THEN LET overlay == Catalog_fromJson(localeArg(T_en), doc).val
            IN /\ cat' = Some(Catalog_merge(cat[1], overlay))
               /\ heap' = heap
               /\ written' = written \cup allPaths(overlay.translations, <<>>)
               /\ res' = [op |-> "merge", a |-> cat[1], b |-> overlay]
       ELSE LET parsed == Catalog_fromJson_Dict(heap, T_en, doc)
                overlay == parsed.v.val
                r == Catalog_merge_Dict(parsed.h, cat[1], overlay)
            IN /\ cat' = Some(r.v)
               /\ heap' = r.h
               /\ written' = written
                    \cup allPaths(parsed.h[overlay.translations], <<>>)
               /\ res' = [op |-> "merge", a |-> cat[1], b |-> overlay]
    /\ ops' = ops + 1
    /\ saved' = keep("catalog", cat[1])
    /\ UNCHANGED <<impl, wasm, builder, i18n, track>>

CatGet ==
  \E key \in ObsKeys :
    /\ isSome(cat)
    /\ ~track
    /\ res' = [op |-> "get", key |-> key, result |-> catGet(heap, cat[1], key)]
    /\ UNCHANGED <<impl, wasm, heap, builder, i18n, cat, written, saved, track, ops>>

InitCatalog ==
  /\ InitCommon
  /\ wasm = WasmAbsent
  /\ track = FALSE

NextCatalog ==
  \/ CatEmpty
  \/ CatSet
  \/ CatMerge
  \/ CatGet

SpecCatalog == InitCatalog /\ [][NextCatalog]_vars

----------------------------------------------------------------------------
(* earlier values are kept while engines and catalogs are updated *)

InitPersist ==
  /\ InitCommon
  /\ wasm = WasmAbsent
  /\ track = TRUE

NextPersist ==
  \/ WithLocales
  \/ WithFallback
  \/ FromBuilder
  \/ SetLocale
  \/ LoadTranslations
  \/ CatEmpty
  \/ CatSet
  \/ CatMerge

SpecPersist == InitPersist /\ [][NextPersist]_vars

----------------------------------------------------------------------------
(* Plural.select on its own *)

T_es == <<"e","s">>

T_xx == <<"x","x">>

WasmNothing == [present |-> TRUE, langs |-> {}]

WasmEnRuEs == [present |-> TRUE, langs |-> {T_en, T_ru, T_es}]

WasmAr == [present |-> TRUE, langs |-> {<<"a","r">>, <<"p","l">>}]

WasmModules == {WasmAbsent, WasmNothing, WasmEnRu, WasmEnRuEs, WasmAr}

SelectNumbers ==
  {Int2Num(k) : k \in {0, 1, 2, 3, 5, 11, 12, 21, 100, 102}}
    \cup {Num(FALSE, 1, <<"5">>), Num(TRUE, 1, <<>>)}

SelectLocales ==
  {T_en, T_enUS, T_ru, T_de, <<"f","r">>, <<"a","r">>, <<"p","l">>,
   <<"j","a">>, T_es, T_xx}

Select ==
  \E n \in SelectNumbers, locale \in SelectLocales :
    /\ res' = [op |-> "select", n |-> n, locale |-> locale,
               result |-> select(wasm, n, locale)]
    /\ UNCHANGED <<impl, wasm, heap, builder, i18n, cat, written, saved, track, ops>>

InitPlural ==
  /\ InitCommon
  /\ impl = "Belt"
  /\ wasm \in WasmModules
  /\ track = FALSE

NextPlural == Select

SpecPlural == InitPlural /\ [][NextPlural]_vars

----------------------------------------------------------------------------
(* the engine the caller holds, read through the variant that runs *)

curKey ==
  IF impl = "Belt" THEN Locale_toString(i18n[1].currentLocale)
  ELSE i18n[1].currentLocale

defKey ==
  IF impl = "Belt" THEN Locale_toString(i18n[1].config.defaultLocale)
  ELSE i18n[1].config.defaultLocale

fbKey ==
  IF impl = "Belt"
  THEN LET f == MapGet(i18n[1].config.fallbacks, curKey)
       IN IF isSome(f) THEN Some(Locale_toString(f[1])) ELSE None
  ELSE MapGet(heap[i18n[1].config.fallbacks], curKey)

configuredKeys ==
  IF impl = "Belt"
  THEN {Locale_toString(i18n[1].config.locales[i]) :
          i \in DOMAIN i18n[1].config.locales}
  ELSE Range(i18n[1].config.locales)

catalogOf(k) ==
  IF impl = "Belt" THEN MapGet(i18n[1].catalogs, k)
  ELSE MapGet(heap[i18n[1].catalogs], k)

entryIn(k, key) ==
  LET c == catalogOf(k)
  IN IF isSome(c) THEN catGet(heap, c[1], key) ELSE None

stringIn(k, key) ==
  LET c == catalogOf(k)
  IN IF ~isSome(c) THEN None
     ELSE IF impl = "Belt" THEN Catalog_getString(c[1], key)
     ELSE Catalog_getString_Dict(heap, c[1], key)

handlerOf ==
  IF impl = "Belt" THEN i18n[1].config.missingKeyHandler ELSE None

----------------------------------------------------------------------------
(* C1: in every engine state reached from make/fromBuilder by setLocale,   *)
(* setLocaleString and loadTranslations, currentLocale is one of           *)
(* config.locales.  Violated: build accepts a default locale and fallback  *)
(* targets that are not configured.                                        *)
C1_CurrentLocaleConfigured ==
  isSome(i18n) => curKey \in configuredKeys

----------------------------------------------------------------------------
(* C2: translate returns the string of the first catalog that has one, in  *)
(* the order current locale, its configured fallback, default locale.      *)
C2_LookupOrder ==
  (res.op = "translate" /\ isSome(i18n)) =>
    LET a == stringIn(curKey, res.key)
        b == IF isSome(fbKey) THEN stringIn(fbKey[1], res.key) ELSE None
        c == stringIn(defKey, res.key)
    IN /\ isSome(a) => res.result = a[1]
       /\ (~isSome(a) /\ isSome(b)) => res.result = b[1]
       /\ (~isSome(a) /\ ~isSome(b) /\ isSome(c)) => res.result = c[1]

(* the fallback's catalog answers although the default's has another string *)
C2_Witness ==
  /\ res.op = "translate"
  /\ isSome(i18n)
  /\ ~isSome(stringIn(curKey, res.key))
  /\ isSome(fbKey)
  /\ isSome(stringIn(fbKey[1], res.key))
  /\ isSome(stringIn(defKey, res.key))
  /\ stringIn(fbKey[1], res.key) # stringIn(defKey, res.key)
  /\ res.result = stringIn(fbKey[1], res.key)[1]

----------------------------------------------------------------------------
noStringInChain(key) ==
  /\ ~isSome(stringIn(curKey, key))
  /\ isSome(fbKey) => ~isSome(stringIn(fbKey[1], key))
  /\ ~isSome(stringIn(defKey, key))

(* C3 as stated: for a key with no string in any catalog of the lookup     *)
(* chain, translate returns the key itself, whatever the configuration.    *)
C3_Original ==
  (res.op = "translate" /\ isSome(i18n) /\ noStringInChain(res.key)) =>
    res.result = res.key

(* C3 amended: for such a key translate returns the key itself when no     *)
(* missingKeyHandler is configured, and what the handler returns for       *)
(* (currentLocale, key) when one is.                                       *)
C3_Amended ==
  (res.op = "translate" /\ isSome(i18n) /\ noStringInChain(res.key)) =>
    IF isSome(handlerOf)
    THEN res.result = applyHandler(handlerOf[1], i18n[1].currentLocale, res.key)
    ELSE res.result = res.key

C3_Witness ==
  /\ res.op = "translate"
  /\ isSome(i18n)
  /\ noStringInChain(res.key)
  /\ isSome(handlerOf)
  /\ res.result # res.key

----------------------------------------------------------------------------
(* C7: loadTranslations with a JSON root that is not an object returns     *)
(* the failure of fromJson and produces no engine; the engine passed in    *)
(* and every Dict it refers to are as before.                              *)
C7_NonObjectRootFails ==
  [][(res'.op = "loadTranslations" /\ res'.root # "object") =>
       (~res'.ok /\ i18n' = i18n /\ heap' = heap
          /\ observe(heap', "engine", i18n[1]) = observe(heap, "engine", i18n[1]))]_vars

C7_Witness ==
  /\ res.op = "loadTranslations"
  /\ res.root = "array"
  /\ ~res.ok
  /\ isSome(i18n)
  /\ ops > 0

----------------------------------------------------------------------------
pluralForm(entry, category) ==
  CASE category = Zero -> entry.zero
    [] category = One -> entry.one
    [] category = Two -> entry.two
    [] category = Few -> entry.few
    [] category = Many -> entry.many
    [] category = Other -> Some(entry.other)

selectedCategory == select(wasm, res.count, curKey)

(* C8 (I18n.res 426-462, the Belt.Map variant): with a Plural entry under  *)
(* singularKey in the current locale's catalog, translatePlural uses the   *)
(* form of the selected category if the entry has it and "other" if not.   *)
C8_PluralEntry ==
  (impl = "Belt" /\ res.op = "translatePlural" /\ isSome(i18n)) =>
    LET entry == entryIn(curKey, res.singular)
    IN (isSome(entry) /\ entry[1].type = "Plural") =>
         LET form == pluralForm(entry[1], selectedCategory)
         IN res.result =
              replaceFirstPlaceholder(
                IF isSome(form) THEN form[1] ELSE entry[1].other,
                Float_toString(res.count))

(* the selected category is not Other and its form is missing *)
C8_Witness ==
  /\ impl = "Belt"
  /\ res.op = "translatePlural"
  /\ isSome(i18n)
  /\ LET entry == entryIn(curKey, res.singular)
     IN /\ isSome(entry)
        /\ entry[1].type = "Plural"
        /\ selectedCategory = Few
        /\ ~isSome(pluralForm(entry[1], selectedCategory))
        /\ res.result =
             replaceFirstPlaceholder(entry[1].other, Float_toString(res.count))

----------------------------------------------------------------------------
literalPlural ==
  replaceFirstPlaceholder(
    IF selectedCategory = One THEN res.singular ELSE res.plural,
    Float_toString(res.count))

englishExample ==
  (bareLanguage(curKey) = T_en /\ res.singular = K_scat
     /\ res.plural = K_scats) =>
    /\ res.count = Int2Num(1) => res.result = <<"1"," ","c","a","t">>
    /\ res.count = Int2Num(3) => res.result = <<"3"," ","c","a","t","s">>

(* C9 as stated: whenever the current locale's catalog has no Plural entry *)
(* under singularKey, the template is the literal singularKey for One and  *)
(* the literal pluralKey otherwise, with count in the first placeholder.   *)
C9_Original ==
  (res.op = "translatePlural" /\ isSome(i18n)) =>
    LET entry == entryIn(curKey, res.singular)
    IN ~(isSome(entry) /\ entry[1].type = "Plural") =>
         (res.result = literalPlural /\ englishExample)

(* C9 amended: the same, whenever the current locale's catalog has neither *)
(* a Plural nor a Simple entry under singularKey.                          *)
C9_Amended ==
  (res.op = "translatePlural" /\ isSome(i18n)) =>
    LET entry == entryIn(curKey, res.singular)
    IN ~(isSome(entry) /\ entry[1].type \in {"Plural", "Simple"}) =>
         (res.result = literalPlural /\ englishExample)

C9_Witness ==
  /\ res.op = "translatePlural"
  /\ isSome(i18n)
  /\ ~isSome(entryIn(curKey, res.singular))
  /\ bareLanguage(curKey) = T_en
  /\ res.singular = K_scat
  /\ res.count = Int2Num(3)
  /\ res.result = <<"3"," ","c","a","t","s">>

----------------------------------------------------------------------------
(* C4: get(set(c, k, v), k) = Some(v) for single-segment and dotted keys,  *)
(* and get(c, k) = None for every key that was never set or loaded (the    *)
(* containers above a key that was set count as set).  Violated by the     *)
(* Dict variant, which stores a dotted key as one segment.                 *)
C4_SetThenGet ==
  /\ (res.op = "set" /\ isSome(cat)) =>
       catGet(heap, cat[1], res.key) = Some(res.value)
  /\ isSome(cat) =>
       \A k \in ObsKeys :
         (\A wk \in written : k \notin prefixesOf(wk)) =>
           catGet(heap, cat[1], k) = None

----------------------------------------------------------------------------
(* C5: get(merge(a, b), k) is get(b, k) when b has a value for k and       *)
(* get(a, k) otherwise, also for dotted keys inside Nested values.         *)
(* Violated: merge replaces a Nested value as a whole.                     *)
C5_MergeByKey ==
  (res.op = "merge" /\ isSome(cat)) =>
    \A k \in ObsKeys :
      catGet(heap, cat[1], k) =
        IF isSome(catGet(heap, res.b, k)) THEN catGet(heap, res.b, k)
        ELSE catGet(heap, res.a, k)

----------------------------------------------------------------------------
(* C6: after any sequence of Catalog.set, Catalog.merge, setLocale and     *)
(* loadTranslations, every catalog or engine value obtained earlier still  *)
(* answers get, getLocale and translate as it did when it was obtained.    *)
C6_EarlierValuesUnchanged ==
  \A i \in DOMAIN saved :
    observe(heap, saved[i].kind, saved[i].val) = saved[i].obs

(* a Dict engine that was loaded into: the engine before the load is kept  *)
(* and the engine after it answers differently                             *)
C6_Witness ==
  /\ impl = "Dict"
  /\ isSome(i18n)
  /\ \E i \in DOMAIN saved :
       /\ saved[i].kind = "engine"
       /\ saved[i].val.catalogs # i18n[1].catalogs
       /\ observe(heap, "engine", i18n[1]).tr # saved[i].obs.tr

----------------------------------------------------------------------------
pureCategory(n, locale) ==
  applyRule(getRuleForLocale(locale)[1], getOperands(n))

bothImplement(n, locale) ==
  /\ isSome(getRuleForLocale(locale))
  /\ Wasm_evaluate(wasm, n, locale)
       \in {W_zero, W_one, W_two, W_few, W_many, W_other}

----------------------------------------------------------------------------
(* Locale identifiers: tags are built from at most MaxSubtags subtags      *)

MaxSubtags == 3

Subtags ==
  {<<"e","n">>, <<"E","N">>, <<"d","e","u">>, <<"e">>, <<"1","2","3">>,
   <<"L","a","t","n">>, <<"U","S">>, <<"4","1","9">>,
   <<"p","o","s","i","x">>, <<>>}

TagInputs ==
  UNION {{join(p, "-") : p \in [1..n -> Subtags]} : n \in 1..MaxSubtags}

fromStringOf(tag) ==
  IF impl = "Belt" THEN Locale_fromString(tag) ELSE Locale_fromString_First(tag)

(* fromString, and fromString again on the canonical string it produced *)
FromString ==
  /\ res.op = "input"
  /\ LET r == fromStringOf(res.tag)
     IN res' = [op |-> "fromString", tag |-> res.tag, result |-> r,
                again |-> IF isSome(r) THEN fromStringOf(Locale_toString(r[1]))
                          ELSE None]
  /\ UNCHANGED <<impl, wasm, heap, builder, i18n, cat, written, saved, track, ops>>

Parent ==
  /\ res.op = "input"
  /\ isSome(fromStringOf(res.tag))
  /\ res' = [op |-> "parent", locale |-> fromStringOf(res.tag)[1],
             result |-> IF impl = "Belt"
                        THEN Locale_parent(fromStringOf(res.tag)[1])
                        ELSE Locale_parent_First(fromStringOf(res.tag)[1])]
  /\ UNCHANGED <<impl, wasm, heap, builder, i18n, cat, written, saved, track, ops>>

FallbackChain ==
  /\ res.op = "input"
  /\ isSome(fromStringOf(res.tag))
  /\ res' = [op |-> "fallbackChain", locale |-> fromStringOf(res.tag)[1],
             result |-> IF impl = "Belt"
                        THEN Locale_fallbackChain(fromStringOf(res.tag)[1])
                        ELSE Locale_fallbackChain_First(fromStringOf(res.tag)[1])]
  /\ UNCHANGED <<impl, wasm, heap, builder, i18n, cat, written, saved, track, ops>>

InitLocale ==
  /\ impl \in {"Belt", "Dict"}
  /\ wasm = WasmAbsent
  /\ heap = <<>>
  /\ builder = Config_make
  /\ i18n = None
  /\ cat = None
  /\ written = {}
  /\ saved = <<>>
  /\ track = FALSE
  /\ ops = 0
  /\ res \in {[op |-> "input", tag |-> t] : t \in TagInputs}

NextLocale == FromString \/ Parent \/ FallbackChain

SpecLocale == InitLocale /\ [][NextLocale]_vars

(* the first subtag: the characters before the first "-" *)
firstSubtag(tag) ==
  LET dashes == {i \in DOMAIN tag : tag[i] = "-"}
  IN IF dashes = {} THEN tag
     ELSE SubSeq(tag, 1, (CHOOSE i \in dashes : \A j \in dashes : i <= j) - 1)

isLetters23(s) ==
  /\ Len(s) \in {2, 3}
  /\ \A i \in DOMAIN s : s[i] \in Lower \cup Upper

(* C11: a tag whose first subtag is a 2-3 letter language parses, and      *)
(* parsing the canonical string of the result succeeds and gives the same  *)
(* canonical string; a tag whose first subtag is anything else does not    *)
(* parse.                                                                  *)
C11_ParseIdempotent ==
  res.op = "fromString" =>
    IF isLetters23(firstSubtag(res.tag))
    THEN /\ isSome(res.result)
         /\ isSome(res.again)
         /\ res.again[1].raw = res.result[1].raw
    ELSE res.result = None /\ res.again = None

C11_Witness ==
  /\ res.op = "fromString"
  /\ res.tag = <<"E","N","-","L","a","t","n","-","U","S">>
  /\ isSome(res.again)
  /\ res.again[1].raw = <<"e","n","-","L","a","t","n","-","U","S">>

isBare(locale) ==
  /\ locale.tag.script = None
  /\ locale.tag.region = None
  /\ locale.tag.variants = <<>>

(* C18: parent drops the region when there is one and keeps language and   *)
(* script; otherwise it drops the script; a bare-language locale has no    *)
(* parent.                                                                 *)
C18_ParentDropsMostSpecific ==
  res.op = "parent" =>
    IF isSome(res.locale.tag.region)
    THEN /\ isSome(res.result)
         /\ res.result[1].tag.language = res.locale.tag.language
         /\ res.result[1].tag.script = res.locale.tag.script
         /\ res.result[1].tag.region = None
    ELSE IF isSome(res.locale.tag.script)
    THEN /\ isSome(res.result)
         /\ res.result[1].tag.language = res.locale.tag.language
         /\ res.result[1].tag.script = None
         /\ res.result[1].tag.region = None
    ELSE isBare(res.locale) => res.result = None

parentOf(locale) ==
  IF impl = "Belt" THEN Locale_parent(locale) ELSE Locale_parent_First(locale)

(* C19: fallbackChain returns a duplicate-free list that starts with the   *)
(* locale, in which each later element is the parent of the one before,    *)
(* and whose last element is the bare-language locale.                     *)
C19_ChainEndsAtBareLanguage ==
  res.op = "fallbackChain" =>
    LET chain == res.result
    IN /\ Len(chain) >= 1
       /\ chain[1] = res.locale
       /\ \A i, j \in DOMAIN chain : i # j => chain[i].raw # chain[j].raw
       /\ \A i \in 2..Len(chain) : parentOf(chain[i - 1]) = Some(chain[i])
       /\ isBare(chain[Len(chain)])
       /\ chain[Len(chain)].tag.language = res.locale.tag.language

----------------------------------------------------------------------------
(* Config.build on its own, over more builders than the engine needs       *)

ConfigLocaleLists ==
  {<<T_bad>>, <<T_bad, <<"1","2","3">>>>, <<T_bad, T_en>>, <<T_en, T_ru>>,
   <<T_ru, T_en>>, <<T_enUS, T_en>>}

ConfigDefaultInputs == {T_ru, T_en, T_bad}

WithLocalesAny == WithLocalesFrom(ConfigLocaleLists)

WithDefaultLocaleAny == WithDefaultLocaleFrom(ConfigDefaultInputs)

Build ==
  /\ i18n = None
  /\ LET c == IF impl = "Belt" THEN Config_build(builder)
              ELSE Config_build_Dict(builder)
     IN res' = [op |-> "build", ok |-> c.ok,
                config |-> IF c.ok THEN Some(c.val) ELSE None]
  /\ UNCHANGED <<impl, wasm, heap, builder, i18n, cat, written, saved, track, ops>>

InitConfig ==
  /\ InitCommon
  /\ wasm = WasmAbsent
  /\ track = FALSE

NextConfig ==
  \/ WithLocalesAny
  \/ WithDefaultLocaleAny
  \/ WithFallback
  \/ Build
  \/ FromBuilder

SpecConfig == InitConfig /\ [][NextConfig]_vars

(* the canonical strings of the configured tags that parse *)
configuredRaws ==
  IF impl = "Belt"
  THEN {Locale_fromString(builder.locales[i])[1].raw :
          i \in {j \in DOMAIN builder.locales :
                   isSome(Locale_fromString(builder.locales[j]))}}
  ELSE Range(builder.locales)

fallbackTargets ==
  IF impl = "Belt"
  THEN {builder.fallbacks[i][2] : i \in DOMAIN builder.fallbacks}
  ELSE {heap[builder.fallbacks][k] : k \in DOMAIN heap[builder.fallbacks]}

targetConfigured(t) ==
  IF impl = "Belt"
  THEN isSome(Locale_fromString(t))
         /\ Locale_fromString(t)[1].raw \in configuredRaws
  ELSE t \in configuredRaws

(* C14: Config.build fails, and no engine is constructed, whenever some    *)
(* fallback target is not one of the configured locales.                   *)
C14_FallbackTargetsValidated ==
  (res.op \in {"build", "fromBuilder"}
     /\ \E t \in fallbackTargets : ~targetConfigured(t)) =>
    (~res.ok /\ i18n = None)

firstParseable(tags) ==
  Locale_fromString(
    tags[CHOOSE i \in DOMAIN tags :
           /\ isSome(Locale_fromString(tags[i]))
           /\ \A j \in 1..(i - 1) : ~isSome(Locale_fromString(tags[j]))])[1]

(* C15: Config.build fails when no configured tag parses; when some tag    *)
(* parses and no default was given, it succeeds and the default locale is  *)
(* the first configured locale.                                            *)
C15_DefaultIsFirstLocale ==
  (res.op = "build" /\ impl = "Belt") =>
    IF configuredRaws = {} THEN ~res.ok
    ELSE builder.defaultLocale = None =>
           /\ res.ok
           /\ res.config[1].defaultLocale = firstParseable(builder.locales)
           /\ res.config[1].defaultLocale = res.config[1].locales[1]

C15_Witness ==
  /\ res.op = "build"
  /\ impl = "Belt"
  /\ builder.locales = <<T_bad, T_en>>
  /\ builder.defaultLocale = None
  /\ res.ok
  /\ res.config[1].defaultLocale.raw = T_en

----------------------------------------------------------------------------
(* fromJson and toJson over documents nested at most MaxJsonDepth deep     *)

MaxJsonDepth == 3

JsonLeaves == {JString(S_A), JNumber, JBool, JNull, JArray}

OtherValues == {JString(S_x), JNumber, JObject(EmptyMap)}

(* an object with an optional "other" member and an optional "a" member *)
objectOf(other, a) ==
  JObject([key \in (IF isSome(other) THEN {W_other} ELSE {})
                     \cup (IF isSome(a) THEN {K_a} ELSE {}) |->
             IF key = W_other THEN other[1] ELSE a[1]])

RECURSIVE JsonValues(_)
JsonValues(d) ==
  IF d = 0 THEN JsonLeaves
  ELSE JsonLeaves
         \cup {objectOf(o, a) :
                 o \in {None} \cup {Some(v) : v \in OtherValues},
                 a \in {None} \cup {Some(v) : v \in JsonValues(d - 1)}}

JsonDocs == {v \in JsonValues(MaxJsonDepth) : v.j = "object"}

K_aother == <<"a",".","o","t","h","e","r">>

JsonSetKeys == {K_aother, K_ab, W_other}

FromJson ==
  /\ res.op = "input"
  /\ LET r == Catalog_fromJson(localeArg(T_en), res.json)
     IN /\ cat' = IF r.ok THEN Some(r.val) ELSE None
        /\ res' = [op |-> "fromJson", json |-> res.json, ok |-> r.ok]
  /\ UNCHANGED <<impl, wasm, heap, builder, i18n, written, saved, track, ops>>

SetJson ==
  \E key \in JsonSetKeys :
    /\ isSome(cat)
    /\ ops < MaxCatOps
    /\ cat' = Some(Catalog_set(cat[1], key, Simple(S_B)))
    /\ ops' = ops + 1
    /\ res' = [op |-> "set", key |-> key, value |-> Simple(S_B)]
    /\ UNCHANGED <<impl, wasm, heap, builder, i18n, written, saved, track>>

(* fromJson(c.locale, toJson(c)) *)
RoundTrip ==
  /\ isSome(cat)
  /\ res' = [op |-> "roundTrip", json |-> Catalog_toJson(cat[1]),
             result |-> Catalog_fromJson(cat[1].locale, Catalog_toJson(cat[1]))]
  /\ UNCHANGED <<impl, wasm, heap, builder, i18n, cat, written, saved, track, ops>>

InitJson ==
  /\ impl = "Belt"
  /\ wasm = WasmAbsent
  /\ heap = <<>>
  /\ builder = Config_make
  /\ i18n = None
  /\ cat = None
  /\ written = {}
  /\ saved = <<>>
  /\ track = FALSE
  /\ ops = 0
  /\ res \in {[op |-> "input", json |-> j] : j \in JsonDocs}

NextJson == FromJson \/ SetJson \/ RoundTrip

SpecJson == InitJson /\ [][NextJson]_vars

(* the classification the claim gives, member by member, level by level *)
RECURSIVE classifiedAs(_, _)
classifiedAs(obj, translations) ==
  /\ DOMAIN translations \subseteq DOMAIN obj
  /\ \A key \in DOMAIN obj :
       LET v == obj[key]
       IN IF v.j = "object" /\ W_other \in DOMAIN v.obj
          THEN key \in DOMAIN translations
                 /\ translations[key].type = "Plural"
          ELSE IF v.j = "object"
          THEN key \in DOMAIN translations
                 /\ translations[key].type = "Nested"
                 /\ classifiedAs(v.obj, translations[key].nested)
          ELSE IF v.j = "string"
          THEN key \in DOMAIN translations
                 /\ translations[key] = Simple(v.s)
          ELSE key \notin DOMAIN translations

(* C16: fromJson makes every member whose value is an object with an       *)
(* "other" member a Plural, every other object a Nested, every string a    *)
(* Simple, at the root and at every nesting level, and drops only the      *)
(* members whose value is a number, boolean, null or array.                *)
C16_MembersClassified ==
  res.op = "fromJson" =>
    (res.ok /\ isSome(cat) /\ classifiedAs(res.json.obj, cat[1].translations))

(* C17: for a catalog built by fromJson and set, fromJson of its toJson    *)
(* succeeds and has the same translations.                                 *)
C17_ToJsonInverse ==
  res.op = "roundTrip" =>
    (res.result.ok /\ res.result.val.translations = cat[1].translations)

----------------------------------------------------------------------------
(* RelativeTime.  A float is kept as the exact quotient num / den of two   *)
(* integers (den > 0): deltas are whole seconds and every value the code   *)
(* computes is a delta divided by a unit's seconds.  A character outside   *)
(* ASCII is written as its code point, one sequence element each.          *)

Second == "Second"

Minute == "Minute"

Hour == "Hour"

Day == "Day"

Week == "Week"

Month == "Month"

Year == "Year"

Long == "Long"

Short == "Short"

Narrow == "Narrow"

Always == "Always"

Auto == "Auto"

Rat(num, den) == [num |-> num, den |-> den]

(* a >= b, a < b on quotients *)
Rat_geq(a, b) == a.num * b.den >= b.num * a.den

Rat_lt(a, b) == a.num * b.den < b.num * a.den

Rat_abs(a) == Rat(IF a.num < 0 THEN 0 - a.num ELSE a.num, a.den)

(* a /. seconds, for a whole number of seconds *)
Rat_div(a, seconds) == Rat(a.num, a.den * seconds)

(* Js.Math.round: the nearest integer, halves towards plus infinity *)
Math_round(a) == (2 * a.num + a.den) \div (2 * a.den)

defaultConfig(locale) == [style |-> Long, numeric |-> Auto, locale |-> locale]

units ==
  <<[unit |-> Year, seconds |-> 31536000, threshold |-> Rat(1, 2)],
    [unit |-> Month, seconds |-> 2628000, threshold |-> Rat(1, 2)],
    [unit |-> Week, seconds |-> 604800, threshold |-> Rat(1, 2)],
    [unit |-> Day, seconds |-> 86400, threshold |-> Rat(1, 2)],
    [unit |-> Hour, seconds |-> 3600, threshold |-> Rat(1, 2)],
    [unit |-> Minute, seconds |-> 60, threshold |-> Rat(1, 2)],
    [unit |-> Second, seconds |-> 1, threshold |-> Rat(1, 2)]>>

(* slip: the threshold has to be exceeded *)
selectUnit_strict(diffSeconds) ==
  LET absDiff == Rat_abs(diffSeconds)
      RECURSIVE findUnit(_)
      findUnit(i) ==
        IF i > Len(units) THEN <<Second, diffSeconds>>
        ELSE IF ~Rat_geq(units[i].threshold, Rat_div(absDiff, units[i].seconds))
        THEN <<units[i].unit, Rat_div(diffSeconds, units[i].seconds)>>
        ELSE findUnit(i + 1)
  IN findUnit(1)

selectUnit(diffSeconds) ==
  LET absDiff == Rat_abs(diffSeconds)
      RECURSIVE findUnit(_)
      findUnit(i) ==
        IF i > Len(units) THEN <<Second, diffSeconds>>
        ELSE IF Rat_geq(Rat_div(absDiff, units[i].seconds), units[i].threshold)
        THEN <<units[i].unit, Rat_div(diffSeconds, units[i].seconds)>>
        ELSE findUnit(i + 1)
  IN findUnit(1)

UnitNames_getEnglish(u) ==
  CASE u = Second ->
         [singular |-> <<"s","e","c","o","n","d">>,
          plural |-> <<"s","e","c","o","n","d","s">>,
          shortSingular |-> <<"s","e","c">>,
          shortPlural |-> <<"s","e","c">>,
          narrow |-> <<"s">>]
    [] u = Minute ->
         [singular |-> <<"m","i","n","u","t","e">>,
          plural |-> <<"m","i","n","u","t","e","s">>,
          shortSingular |-> <<"m","i","n">>,
          shortPlural |-> <<"m","i","n">>,
          narrow |-> <<"m">>]
    [] u = Hour ->
         [singular |-> <<"h","o","u","r">>,
          plural |-> <<"h","o","u","r","s">>,
          shortSingular |-> <<"h","r">>,
          shortPlural |-> <<"h","r">>,
          narrow |-> <<"h">>]
    [] u = Day ->
         [singular |-> <<"d","a","y">>,
          plural |-> <<"d","a","y","s">>,
          shortSingular |-> <<"d","a","y">>,
          shortPlural |-> <<"d","a","y","s">>,
          narrow |-> <<"d">>]
    [] u = Week ->
         [singular |-> <<"w","e","e","k">>,
          plural |-> <<"w","e","e","k","s">>,
          shortSingular |-> <<"w","k">>,
          shortPlural |-> <<"w","k","s">>,
          narrow |-> <<"w">>]
    [] u = Month ->
         [singular |-> <<"m","o","n","t","h">>,
          plural |-> <<"m","o","n","t","h","s">>,
          shortSingular |-> <<"m","o">>,
          shortPlural |-> <<"m","o","s">>,
          narrow |-> <<"m","o">>]
    [] u = Year ->
         [singular |-> <<"y","e","a","r">>,
          plural |-> <<"y","e","a","r","s">>,
          shortSingular |-> <<"y","r">>,
          shortPlural |-> <<"y","r","s">>,
          narrow |-> <<"y">>]

UnitNames_getGerman(u) ==
  CASE u = Second ->
         [singular |-> <<"S","e","k","u","n","d","e">>,
          plural |-> <<"S","e","k","u","n","d","e","n">>,
          shortSingular |-> <<"S","e","k",".">>,
          shortPlural |-> <<"S","e","k",".">>,
          narrow |-> <<"s">>]
    [] u = Minute ->
         [singular |-> <<"M","i","n","u","t","e">>,
          plural |-> <<"M","i","n","u","t","e","n">>,
          shortSingular |-> <<"M","i","n",".">>,
          shortPlural |-> <<"M","i","n",".">>,
          narrow |-> <<"m">>]
    [] u = Hour ->
         [singular |-> <<"S","t","u","n","d","e">>,
          plural |-> <<"S","t","u","n","d","e","n">>,
          shortSingular |-> <<"S","t","d",".">>,
          shortPlural |-> <<"S","t","d",".">>,
          narrow |-> <<"h">>]
    [] u = Day ->
         [singular |-> <<"T","a","g">>,
          plural |-> <<"T","a","g","e">>,
          shortSingular |-> <<"T","a","g">>,
          shortPlural |-> <<"T","a","g","e">>,
          narrow |-> <<"T">>]
    [] u = Week ->
         [singular |-> <<"W","o","c","h","e">>,
          plural |-> <<"W","o","c","h","e","n">>,
          shortSingular |-> <<"W","o",".">>,
          shortPlural |-> <<"W","o",".">>,
          narrow |-> <<"W">>]
    [] u = Month ->
         [singular |-> <<"M","o","n","a","t">>,
          plural |-> <<"M","o","n","a","t","e">>,
          shortSingular |-> <<"M","o","n",".">>,
          shortPlural |-> <<"M","o","n",".">>,
          narrow |-> <<"M">>]
    [] u = Year ->
         [singular |-> <<"J","a","h","r">>,
          plural |-> <<"J","a","h","r","e">>,
          shortSingular |-> <<"J",".">>,
          shortPlural |-> <<"J",".">>,
          narrow |-> <<"J">>]

UnitNames_getFrench(u) ==
  CASE u = Second ->
         [singular |-> <<"s","e","c","o","n","d","e">>,
          plural |-> <<"s","e","c","o","n","d","e","s">>,
          shortSingular |-> <<"s">>,
          shortPlural |-> <<"s">>,
          narrow |-> <<"s">>]
    [] u = Minute ->
         [singular |-> <<"m","i","n","u","t","e">>,
          plural |-> <<"m","i","n","u","t","e","s">>,
          shortSingular |-> <<"m","i","n">>,
          shortPlural |-> <<"m","i","n">>,
          narrow |-> <<"m">>]
    [] u = Hour ->
         [singular |-> <<"h","e","u","r","e">>,
          plural |-> <<"h","e","u","r","e","s">>,
          shortSingular |-> <<"h">>,
          shortPlural |-> <<"h">>,
          narrow |-> <<"h">>]
    [] u = Day ->
         [singular |-> <<"j","o","u","r">>,
          plural |-> <<"j","o","u","r","s">>,
          shortSingular |-> <<"j">>,
          shortPlural |-> <<"j">>,
          narrow |-> <<"j">>]
    [] u = Week ->
         [singular |-> <<"s","e","m","a","i","n","e">>,
          plural |-> <<"s","e","m","a","i","n","e","s">>,
          shortSingular |-> <<"s","e","m",".">>,
          shortPlural |-> <<"s","e","m",".">>,
          narrow |-> <<"s","e","m">>]
    [] u = Month ->
         [singular |-> <<"m","o","i","s">>,
          plural |-> <<"m","o","i","s">>,
          shortSingular |-> <<"m",".">>,
          shortPlural |-> <<"m",".">>,
          narrow |-> <<"m">>]
    [] u = Year ->
         [singular |-> <<"a","n">>,
          plural |-> <<"a","n","s">>,
          shortSingular |-> <<"a">>,
          shortPlural |-> <<"a">>,
          narrow |-> <<"a">>]

UnitNames_getSpanish(u) ==
  CASE u = Second ->
         [singular |-> <<"s","e","g","u","n","d","o">>,
          plural |-> <<"s","e","g","u","n","d","o","s">>,
          shortSingular |-> <<"s">>,
          shortPlural |-> <<"s">>,
          narrow |-> <<"s">>]
    [] u = Minute ->
         [singular |-> <<"m","i","n","u","t","o">>,
          plural |-> <<"m","i","n","u","t","o","s">>,
          shortSingular |-> <<"m","i","n">>,
          shortPlural |-> <<"m","i","n">>,
          narrow |-> <<"m">>]
    [] u = Hour ->
         [singular |-> <<"h","o","r","a">>,
          plural |-> <<"h","o","r","a","s">>,
          shortSingular |-> <<"h">>,
          shortPlural |-> <<"h">>,
          narrow |-> <<"h">>]
    [] u = Day ->
         [singular |-> <<"d","U+00ED","a">>,
          plural |-> <<"d","U+00ED","a","s">>,
          shortSingular |-> <<"d">>,
          shortPlural |-> <<"d">>,
          narrow |-> <<"d">>]
    [] u = Week ->
         [singular |-> <<"s","e","m","a","n","a">>,
          plural |-> <<"s","e","m","a","n","a","s">>,
          shortSingular |-> <<"s","e","m",".">>,
          shortPlural |-> <<"s","e","m",".">>,
          narrow |-> <<"s","e","m">>]
    [] u = Month ->
         [singular |-> <<"m","e","s">>,
          plural |-> <<"m","e","s","e","s">>,
          shortSingular |-> <<"m",".">>,
          shortPlural |-> <<"m",".">>,
          narrow |-> <<"m">>]
    [] u = Year ->
         [singular |-> <<"a","U+00F1","o">>,
          plural |-> <<"a","U+00F1","o","s">>,
          shortSingular |-> <<"a">>,
          shortPlural |-> <<"a">>,
          narrow |-> <<"a">>]

UnitNames_getRussian(u) ==
  CASE u = Second ->
         [singular |-> <<"U+0441","U+0435","U+043A","U+0443","U+043D","U+0434","U+0430">>,
          plural |-> <<"U+0441","U+0435","U+043A","U+0443","U+043D","U+0434">>,
          shortSingular |-> <<"U+0441","U+0435","U+043A",".">>,
          shortPlural |-> <<"U+0441","U+0435","U+043A",".">>,
          narrow |-> <<"U+0441">>]
    [] u = Minute ->
         [singular |-> <<"U+043C","U+0438","U+043D","U+0443","U+0442","U+0430">>,
          plural |-> <<"U+043C","U+0438","U+043D","U+0443","U+0442">>,
          shortSingular |-> <<"U+043C","U+0438","U+043D",".">>,
          shortPlural |-> <<"U+043C","U+0438","U+043D",".">>,
          narrow |-> <<"U+043C">>]
    [] u = Hour ->
         [singular |-> <<"U+0447","U+0430","U+0441">>,
          plural |-> <<"U+0447","U+0430","U+0441","U+043E","U+0432">>,
          shortSingular |-> <<"U+0447",".">>,
          shortPlural |-> <<"U+0447",".">>,
          narrow |-> <<"U+0447">>]
    [] u = Day ->
         [singular |-> <<"U+0434","U+0435","U+043D","U+044C">>,
          plural |-> <<"U+0434","U+043D","U+0435","U+0439">>,
          shortSingular |-> <<"U+0434","U+043D",".">>,
          shortPlural |-> <<"U+0434","U+043D",".">>,
          narrow |-> <<"U+0434">>]
    [] u = Week ->
         [singular |-> <<"U+043D","U+0435","U+0434","U+0435","U+043B","U+044F">>,
          plural |-> <<"U+043D","U+0435","U+0434","U+0435","U+043B","U+044C">>,
          shortSingular |-> <<"U+043D","U+0435","U+0434",".">>,
          shortPlural |-> <<"U+043D","U+0435","U+0434",".">>,
          narrow |-> <<"U+043D">>]
    [] u = Month ->
         [singular |-> <<"U+043C","U+0435","U+0441","U+044F","U+0446">>,
          plural |-> <<"U+043C","U+0435","U+0441","U+044F","U+0446","U+0435","U+0432">>,
          shortSingular |-> <<"U+043C","U+0435","U+0441",".">>,
          shortPlural |-> <<"U+043C","U+0435","U+0441",".">>,
          narrow |-> <<"U+043C">>]
    [] u = Year ->
         [singular |-> <<"U+0433","U+043E","U+0434">>,
          plural |-> <<"U+043B","U+0435","U+0442">>,
          shortSingular |-> <<"U+0433",".">>,
          shortPlural |-> <<"U+043B",".">>,
          narrow |-> <<"U+0433">>]

UnitNames_getJapanese(u) ==
  CASE u = Second ->
         [singular |-> <<"U+79D2">>,
          plural |-> <<"U+79D2">>,
          shortSingular |-> <<"U+79D2">>,
          shortPlural |-> <<"U+79D2">>,
          narrow |-> <<"U+79D2">>]
    [] u = Minute ->
         [singular |-> <<"U+5206">>,
          plural |-> <<"U+5206">>,
          shortSingular |-> <<"U+5206">>,
          shortPlural |-> <<"U+5206">>,
          narrow |-> <<"U+5206">>]
    [] u = Hour ->
         [singular |-> <<"U+6642","U+9593">>,
          plural |-> <<"U+6642","U+9593">>,
          shortSingular |-> <<"U+6642","U+9593">>,
          shortPlural |-> <<"U+6642","U+9593">>,
          narrow |-> <<"U+6642">>]
    [] u = Day ->
         [singular |-> <<"U+65E5">>,
          plural |-> <<"U+65E5">>,
          shortSingular |-> <<"U+65E5">>,
          shortPlural |-> <<"U+65E5">>,
          narrow |-> <<"U+65E5">>]
    [] u = Week ->
         [singular |-> <<"U+9031","U+9593">>,
          plural |-> <<"U+9031","U+9593">>,
          shortSingular |-> <<"U+9031">>,
          shortPlural |-> <<"U+9031">>,
          narrow |-> <<"U+9031">>]
    [] u = Month ->
         [singular |-> <<"U+304B","U+6708">>,
          plural |-> <<"U+304B","U+6708">>,
          shortSingular |-> <<"U+304B","U+6708">>,
          shortPlural |-> <<"U+304B","U+6708">>,
          narrow |-> <<"U+6708">>]
    [] u = Year ->
         [singular |-> <<"U+5E74">>,
          plural |-> <<"U+5E74">>,
          shortSingular |-> <<"U+5E74">>,
          shortPlural |-> <<"U+5E74">>,
          narrow |-> <<"U+5E74">>]

UnitNames_getChinese(u) ==
  CASE u = Second ->
         [singular |-> <<"U+79D2">>,
          plural |-> <<"U+79D2">>,
          shortSingular |-> <<"U+79D2">>,
          shortPlural |-> <<"U+79D2">>,
          narrow |-> <<"U+79D2">>]
    [] u = Minute ->
         [singular |-> <<"U+5206","U+949F">>,
          plural |-> <<"U+5206","U+949F">>,
          shortSingular |-> <<"U+5206","U+949F">>,
          shortPlural |-> <<"U+5206","U+949F">>,
          narrow |-> <<"U+5206">>]
    [] u = Hour ->
         [singular |-> <<"U+5C0F","U+65F6">>,
          plural |-> <<"U+5C0F","U+65F6">>,
          shortSingular |-> <<"U+5C0F","U+65F6">>,
          shortPlural |-> <<"U+5C0F","U+65F6">>,
          narrow |-> <<"U+65F6">>]
    [] u = Day ->
         [singular |-> <<"U+5929">>,
          plural |-> <<"U+5929">>,
          shortSingular |-> <<"U+5929">>,
          shortPlural |-> <<"U+5929">>,
          narrow |-> <<"U+5929">>]
    [] u = Week ->
         [singular |-> <<"U+5468">>,
          plural |-> <<"U+5468">>,
          shortSingular |-> <<"U+5468">>,
          shortPlural |-> <<"U+5468">>,
          narrow |-> <<"U+5468">>]
    [] u = Month ->
         [singular |-> <<"U+4E2A","U+6708">>,
          plural |-> <<"U+4E2A","U+6708">>,
          shortSingular |-> <<"U+4E2A","U+6708">>,
          shortPlural |-> <<"U+4E2A","U+6708">>,
          narrow |-> <<"U+6708">>]
    [] u = Year ->
         [singular |-> <<"U+5E74">>,
          plural |-> <<"U+5E74">>,
          shortSingular |-> <<"U+5E74">>,
          shortPlural |-> <<"U+5E74">>,
          narrow |-> <<"U+5E74">>]

UnitNames_getArabic(u) ==
  CASE u = Second ->
         [singular |-> <<"U+062B","U+0627","U+0646","U+064A","U+0629">>,
          plural |-> <<"U+062B","U+0648","U+0627","U+0646","U+064D">>,
          shortSingular |-> <<"U+062B">>,
          shortPlural |-> <<"U+062B">>,
          narrow |-> <<"U+062B">>]
    [] u = Minute ->
         [singular |-> <<"U+062F","U+0642","U+064A","U+0642","U+0629">>,
          plural |-> <<"U+062F","U+0642","U+0627","U+0626","U+0642">>,
          shortSingular |-> <<"U+062F">>,
          shortPlural |-> <<"U+062F">>,
          narrow |-> <<"U+062F">>]
    [] u = Hour ->
         [singular |-> <<"U+0633","U+0627","U+0639","U+0629">>,
          plural |-> <<"U+0633","U+0627","U+0639","U+0627","U+062A">>,
          shortSingular |-> <<"U+0633">>,
          shortPlural |-> <<"U+0633">>,
          narrow |-> <<"U+0633">>]
    [] u = Day ->
         [singular |-> <<"U+064A","U+0648","U+0645">>,
          plural |-> <<"U+0623","U+064A","U+0627","U+0645">>,
          shortSingular |-> <<"U+064A">>,
          shortPlural |-> <<"U+064A">>,
          narrow |-> <<"U+064A">>]
    [] u = Week ->
         [singular |-> <<"U+0623","U+0633","U+0628","U+0648","U+0639">>,
          plural |-> <<"U+0623","U+0633","U+0627","U+0628","U+064A","U+0639">>,
          shortSingular |-> <<"U+0623","U+0633">>,
          shortPlural |-> <<"U+0623","U+0633">>,
          narrow |-> <<"U+0623","U+0633">>]
    [] u = Month ->
         [singular |-> <<"U+0634","U+0647","U+0631">>,
          plural |-> <<"U+0623","U+0634","U+0647","U+0631">>,
          shortSingular |-> <<"U+0634">>,
          shortPlural |-> <<"U+0634">>,
          narrow |-> <<"U+0634">>]
    [] u = Year ->
         [singular |-> <<"U+0633","U+0646","U+0629">>,
          plural |-> <<"U+0633","U+0646","U+0648","U+0627","U+062A">>,
          shortSingular |-> <<"U+0633","U+0646">>,
          shortPlural |-> <<"U+0633","U+0646">>,
          narrow |-> <<"U+0633","U+0646">>]

UnitNames_forLocale(locale, u) ==
  LET lang == Locale_language(locale)
  IN IF lang = <<"d","e">> THEN UnitNames_getGerman(u)
     ELSE IF lang = <<"f","r">> THEN UnitNames_getFrench(u)
     ELSE IF lang = <<"e","s">> THEN UnitNames_getSpanish(u)
     ELSE IF lang = <<"r","u">> THEN UnitNames_getRussian(u)
     ELSE IF lang = <<"j","a">> THEN UnitNames_getJapanese(u)
     ELSE IF lang = <<"z","h">> THEN UnitNames_getChinese(u)
     ELSE IF lang = <<"a","r">> THEN UnitNames_getArabic(u)
     ELSE UnitNames_getEnglish(u)

SpecialNames_english ==
  [now |-> <<"j","u","s","t"," ","n","o","w">>,
   yesterday |-> <<"y","e","s","t","e","r","d","a","y">>,
   tomorrow |-> <<"t","o","m","o","r","r","o","w">>,
   lastWeek |-> <<"l","a","s","t"," ","w","e","e","k">>,
   nextWeek |-> <<"n","e","x","t"," ","w","e","e","k">>,
   lastMonth |-> <<"l","a","s","t"," ","m","o","n","t","h">>,
   nextMonth |-> <<"n","e","x","t"," ","m","o","n","t","h">>,
   lastYear |-> <<"l","a","s","t"," ","y","e","a","r">>,
   nextYear |-> <<"n","e","x","t"," ","y","e","a","r">>,
   ago |-> <<"a","g","o">>,
   inFuture |-> <<"i","n">>]

SpecialNames_german ==
  [now |-> <<"g","e","r","a","d","e"," ","e","b","e","n">>,
   yesterday |-> <<"g","e","s","t","e","r","n">>,
   tomorrow |-> <<"m","o","r","g","e","n">>,
   lastWeek |-> <<"l","e","t","z","t","e"," ","W","o","c","h","e">>,
   nextWeek |-> <<"n","U+00E4","c","h","s","t","e"," ","W","o","c","h","e">>,
   lastMonth |-> <<"l","e","t","z","t","e","n"," ","M","o","n","a","t">>,
   nextMonth |-> <<"n","U+00E4","c","h","s","t","e","n"," ","M","o","n","a","t">>,
   lastYear |-> <<"l","e","t","z","t","e","s"," ","J","a","h","r">>,
   nextYear |-> <<"n","U+00E4","c","h","s","t","e","s"," ","J","a","h","r">>,
   ago |-> <<"v","o","r">>,
   inFuture |-> <<"i","n">>]

SpecialNames_french ==
  [now |-> <<"U+00E0"," ","l","'","i","n","s","t","a","n","t">>,
   yesterday |-> <<"h","i","e","r">>,
   tomorrow |-> <<"d","e","m","a","i","n">>,
   lastWeek |-> <<"l","a"," ","s","e","m","a","i","n","e"," ","d","e","r","n","i","U+00E8","r","e">>,
   nextWeek |-> <<"l","a"," ","s","e","m","a","i","n","e"," ","p","r","o","c","h","a","i","n","e">>,
   lastMonth |-> <<"l","e"," ","m","o","i","s"," ","d","e","r","n","i","e","r">>,
   nextMonth |-> <<"l","e"," ","m","o","i","s"," ","p","r","o","c","h","a","i","n">>,
   lastYear |-> <<"l","'","a","n","n","U+00E9","e"," ","d","e","r","n","i","U+00E8","r","e">>,
   nextYear |-> <<"l","'","a","n","n","U+00E9","e"," ","p","r","o","c","h","a","i","n","e">>,
   ago |-> <<"i","l"," ","y"," ","a">>,
   inFuture |-> <<"d","a","n","s">>]

SpecialNames_spanish ==
  [now |-> <<"a","h","o","r","a"," ","m","i","s","m","o">>,
   yesterday |-> <<"a","y","e","r">>,
   tomorrow |-> <<"m","a","U+00F1","a","n","a">>,
   lastWeek |-> <<"l","a"," ","s","e","m","a","n","a"," ","p","a","s","a","d","a">>,
   nextWeek |-> <<"l","a"," ","p","r","U+00F3","x","i","m","a"," ","s","e","m","a","n","a">>,
   lastMonth |-> <<"e","l"," ","m","e","s"," ","p","a","s","a","d","o">>,
   nextMonth |-> <<"e","l"," ","p","r","U+00F3","x","i","m","o"," ","m","e","s">>,
   lastYear |-> <<"e","l"," ","a","U+00F1","o"," ","p","a","s","a","d","o">>,
   nextYear |-> <<"e","l"," ","p","r","U+00F3","x","i","m","o"," ","a","U+00F1","o">>,
   ago |-> <<"h","a","c","e">>,
   inFuture |-> <<"e","n">>]

SpecialNames_russian ==
  [now |-> <<"U+0442","U+043E","U+043B","U+044C","U+043A","U+043E"," ","U+0447","U+0442","U+043E">>,
   yesterday |-> <<"U+0432","U+0447","U+0435","U+0440","U+0430">>,
   tomorrow |-> <<"U+0437","U+0430","U+0432","U+0442","U+0440","U+0430">>,
   lastWeek |-> <<"U+043D","U+0430"," ","U+043F","U+0440","U+043E","U+0448","U+043B","U+043E","U+0439"," ","U+043D","U+0435","U+0434","U+0435","U+043B","U+0435">>,
   nextWeek |-> <<"U+043D","U+0430"," ","U+0441","U+043B","U+0435","U+0434","U+0443","U+044E","U+0449","U+0435","U+0439"," ","U+043D","U+0435","U+0434","U+0435","U+043B","U+0435">>,
   lastMonth |-> <<"U+0432"," ","U+043F","U+0440","U+043E","U+0448","U+043B","U+043E","U+043C"," ","U+043C","U+0435","U+0441","U+044F","U+0446","U+0435">>,
   nextMonth |-> <<"U+0432"," ","U+0441","U+043B","U+0435","U+0434","U+0443","U+044E","U+0449","U+0435","U+043C"," ","U+043C","U+0435","U+0441","U+044F","U+0446","U+0435">>,
   lastYear |-> <<"U+0432"," ","U+043F","U+0440","U+043E","U+0448","U+043B","U+043E","U+043C"," ","U+0433","U+043E","U+0434","U+0443">>,
   nextYear |-> <<"U+0432"," ","U+0441","U+043B","U+0435","U+0434","U+0443","U+044E","U+0449","U+0435","U+043C"," ","U+0433","U+043E","U+0434","U+0443">>,
   ago |-> <<"U+043D","U+0430","U+0437","U+0430","U+0434">>,
   inFuture |-> <<"U+0447","U+0435","U+0440","U+0435","U+0437">>]

SpecialNames_japanese ==
  [now |-> <<"U+305F","U+3063","U+305F","U+4ECA">>,
   yesterday |-> <<"U+6628","U+65E5">>,
   tomorrow |-> <<"U+660E","U+65E5">>,
   lastWeek |-> <<"U+5148","U+9031">>,
   nextWeek |-> <<"U+6765","U+9031">>,
   lastMonth |-> <<"U+5148","U+6708">>,
   nextMonth |-> <<"U+6765","U+6708">>,
   lastYear |-> <<"U+53BB","U+5E74">>,
   nextYear |-> <<"U+6765","U+5E74">>,
   ago |-> <<"U+524D">>,
   inFuture |-> <<"U+5F8C">>]

SpecialNames_chinese ==
  [now |-> <<"U+521A","U+521A">>,
   yesterday |-> <<"U+6628","U+5929">>,
   tomorrow |-> <<"U+660E","U+5929">>,
   lastWeek |-> <<"U+4E0A","U+5468">>,
   nextWeek |-> <<"U+4E0B","U+5468">>,
   lastMonth |-> <<"U+4E0A","U+4E2A","U+6708">>,
   nextMonth |-> <<"U+4E0B","U+4E2A","U+6708">>,
   lastYear |-> <<"U+53BB","U+5E74">>,
   nextYear |-> <<"U+660E","U+5E74">>,
   ago |-> <<"U+524D">>,
   inFuture |-> <<"U+540E">>]

SpecialNames_arabic ==
  [now |-> <<"U+0627","U+0644","U+0622","U+0646">>,
   yesterday |-> <<"U+0623","U+0645","U+0633">>,
   tomorrow |-> <<"U+063A","U+062F","U+0627","U+064B">>,
   lastWeek |-> <<"U+0627","U+0644","U+0623","U+0633","U+0628","U+0648","U+0639"," ","U+0627","U+0644","U+0645","U+0627","U+0636","U+064A">>,
   nextWeek |-> <<"U+0627","U+0644","U+0623","U+0633","U+0628","U+0648","U+0639"," ","U+0627","U+0644","U+0642","U+0627","U+062F","U+0645">>,
   lastMonth |-> <<"U+0627","U+0644","U+0634","U+0647","U+0631"," ","U+0627","U+0644","U+0645","U+0627","U+0636","U+064A">>,
   nextMonth |-> <<"U+0627","U+0644","U+0634","U+0647","U+0631"," ","U+0627","U+0644","U+0642","U+0627","U+062F","U+0645">>,
   lastYear |-> <<"U+0627","U+0644","U+0639","U+0627","U+0645"," ","U+0627","U+0644","U+0645","U+0627","U+0636","U+064A">>,
   nextYear |-> <<"U+0627","U+0644","U+0639","U+0627","U+0645"," ","U+0627","U+0644","U+0642","U+0627","U+062F","U+0645">>,
   ago |-> <<"U+0645","U+0646","U+0630">>,
   inFuture |-> <<"U+062E","U+0644","U+0627","U+0644">>]

SpecialNames_forLocale(locale) ==
  LET lang == Locale_language(locale)
  IN IF lang = <<"d","e">> THEN SpecialNames_german
     ELSE IF lang = <<"f","r">> THEN SpecialNames_french
     ELSE IF lang = <<"e","s">> THEN SpecialNames_spanish
     ELSE IF lang = <<"r","u">> THEN SpecialNames_russian
     ELSE IF lang = <<"j","a">> THEN SpecialNames_japanese
     ELSE IF lang = <<"z","h">> THEN SpecialNames_chinese
     ELSE IF lang = <<"a","r">> THEN SpecialNames_arabic
     ELSE SpecialNames_english


getUnitName(w, locale, u, value, style) ==
  LET names == UnitNames_forLocale(locale, u)
      category == selectForLocale(w, value, locale)
  IN IF style = Long
     THEN IF category = One THEN names.singular ELSE names.plural
     ELSE IF style = Short
     THEN IF category = One THEN names.shortSingular ELSE names.shortPlural
     ELSE names.narrow

(* the switch on the language that assembles number, unit and marker *)
formatNumeric(lang, names, isPast, valueStr, unitName) ==
  IF lang \in {<<"j","a">>, <<"z","h">>, <<"k","o">>}
  THEN IF isPast THEN valueStr \o unitName \o names.ago
       ELSE valueStr \o unitName \o names.inFuture
  ELSE IF lang = <<"d","e">>
  THEN IF isPast THEN names.ago \o <<" ">> \o valueStr \o <<" ">> \o unitName
       ELSE names.inFuture \o <<" ">> \o valueStr \o <<" ">> \o unitName
  ELSE IF lang \in {<<"f","r">>, <<"e","s">>}
  THEN IF isPast THEN names.ago \o <<" ">> \o valueStr \o <<" ">> \o unitName
       ELSE names.inFuture \o <<" ">> \o valueStr \o <<" ">> \o unitName
  ELSE IF lang = <<"r","u">>
  THEN IF isPast THEN valueStr \o <<" ">> \o unitName \o <<" ">> \o names.ago
       ELSE names.inFuture \o <<" ">> \o valueStr \o <<" ">> \o unitName
  ELSE IF lang = <<"a","r">>
  THEN IF isPast THEN names.ago \o <<" ">> \o valueStr \o <<" ">> \o unitName
       ELSE names.inFuture \o <<" ">> \o valueStr \o <<" ">> \o unitName
  ELSE IF isPast THEN valueStr \o <<" ">> \o unitName \o <<" ">> \o names.ago
       ELSE names.inFuture \o <<" ">> \o valueStr \o <<" ">> \o unitName

(* formatRelative once absValue, roundedValue, isPast and names are bound *)
formatRelativeWith(w, config, u, absValue, roundedValue, isPast, names) ==
  IF config.numeric = Auto /\ Rat_lt(absValue, Rat(10, 1)) /\ u = Second
  THEN names.now
  ELSE IF config.numeric = Auto /\ u = Day /\ roundedValue = 1
  THEN IF isPast THEN names.yesterday ELSE names.tomorrow
  ELSE IF config.numeric = Auto /\ u = Week /\ roundedValue = 1
  THEN IF isPast THEN names.lastWeek ELSE names.nextWeek
  ELSE IF config.numeric = Auto /\ u = Month /\ roundedValue = 1
  THEN IF isPast THEN names.lastMonth ELSE names.nextMonth
  ELSE IF config.numeric = Auto /\ u = Year /\ roundedValue = 1
  THEN IF isPast THEN names.lastYear ELSE names.nextYear
  ELSE formatNumeric(Locale_language(config.locale), names, isPast,
                     natToString(roundedValue),
                     getUnitName(w, config.locale, u, Int2Num(roundedValue),
                                 config.style))

(* slip: the magnitude is cut off, not rounded *)
formatRelative_truncated(w, config, value, u) ==
  formatRelativeWith(w, config, u, Rat_abs(value),
                     Rat_abs(value).num \div Rat_abs(value).den,
                     Rat_lt(value, Rat(0, 1)),
                     SpecialNames_forLocale(config.locale))

formatRelative(w, config, value, u) ==
  formatRelativeWith(w, config, u, Rat_abs(value), Math_round(Rat_abs(value)),
                     Rat_lt(value, Rat(0, 1)),
                     SpecialNames_forLocale(config.locale))

RelativeTime_format(w, config, diffSeconds) ==
  formatRelative(w, config, selectUnit(diffSeconds)[2],
                 selectUnit(diffSeconds)[1])

RelativeTime_make(locale) == defaultConfig(locale)

withStyle(config, style) == [config EXCEPT !.style = style]

withNumeric(config, numeric) == [config EXCEPT !.numeric = numeric]

(* deltas in whole seconds, around every threshold of selectUnit and of    *)
(* the rounding to one unit                                                *)
DeltaMagnitudes ==
  {0, 5, 9, 10, 29, 30, 45, 90, 1800, 3600, 43199, 43200, 86400, 100000,
   129599, 129600, 259200, 302399, 302400, 604800, 907199, 907200, 1313999,
   1314000, 2628000, 3941999, 3942000, 15767999, 15768000, 31536000,
   47303999, 47304000, 63072000}

DeltaInputs == DeltaMagnitudes \cup {0 - m : m \in DeltaMagnitudes}

RelativeTimeLocales ==
  {T_en, T_enUS, T_de, <<"d","e","-","A","T">>, <<"f","r">>, T_es, T_ru,
   <<"j","a">>, <<"z","h">>, <<"a","r">>, <<"k","o">>}

RelativeTimeInputs ==
  {[op |-> "input", diff |-> diff, locale |-> locale, numeric |-> numeric,
    style |-> style] :
     diff \in DeltaInputs, locale \in RelativeTimeLocales,
     numeric \in {Always, Auto}, style \in {Long, Short, Narrow}}

SelectUnit ==
  /\ res.op = "input"
  /\ res' = [op |-> "selectUnit", diff |-> res.diff,
             unit |-> selectUnit(Rat(res.diff, 1))[1],
             value |-> selectUnit(Rat(res.diff, 1))[2]]
  /\ UNCHANGED <<impl, wasm, heap, builder, i18n, cat, written, saved, track, ops>>

Format ==
  /\ res.op = "input"
  /\ res' = [op |-> "format", diff |-> res.diff,
             config |-> withStyle(withNumeric(
                          RelativeTime_make(Locale_fromString(res.locale)[1]),
                          res.numeric), res.style),
             result |-> RelativeTime_format(wasm,
                          withStyle(withNumeric(
                            RelativeTime_make(Locale_fromString(res.locale)[1]),
                            res.numeric), res.style),
                          Rat(res.diff, 1))]
  /\ UNCHANGED <<impl, wasm, heap, builder, i18n, cat, written, saved, track, ops>>

InitRelativeTime ==
  /\ impl = "Belt"
  /\ wasm \in {WasmAbsent, WasmEnRu}
  /\ heap = <<>>
  /\ builder = Config_make
  /\ i18n = None
  /\ cat = None
  /\ written = {}
  /\ saved = <<>>
  /\ track = FALSE
  /\ ops = 0
  /\ res \in RelativeTimeInputs

NextRelativeTime == SelectUnit \/ Format

SpecRelativeTime == InitRelativeTime /\ [][NextRelativeTime]_vars

magnitude(diff) == IF diff < 0 THEN 0 - diff ELSE diff

(* the phrases of a locale that stand for a whole result *)
phrasesOf(names) ==
  {names.now, names.yesterday, names.tomorrow, names.lastWeek, names.nextWeek,
   names.lastMonth, names.nextMonth, names.lastYear, names.nextYear}

(* C12 as stated: with numeric = Auto the result is a phrase exactly for a *)
(* magnitude below 10 seconds ("just now") and for a delta of exactly one  *)
(* day, week, month or year (yesterday/tomorrow, last/next week, month,    *)
(* year); every other delta is rendered numerically.                       *)
C12_Original ==
  (res.op = "format" /\ res.config.numeric = Auto) =>
    LET names == SpecialNames_forLocale(res.config.locale)
        m == magnitude(res.diff)
        past == res.diff < 0
    IN IF m < 10 THEN res.result = names.now
       ELSE IF m = 86400
       THEN res.result = IF past THEN names.yesterday ELSE names.tomorrow
       ELSE IF m = 604800
       THEN res.result = IF past THEN names.lastWeek ELSE names.nextWeek
       ELSE IF m = 2628000
       THEN res.result = IF past THEN names.lastMonth ELSE names.nextMonth
       ELSE IF m = 31536000
       THEN res.result = IF past THEN names.lastYear ELSE names.nextYear
       ELSE res.result \notin phrasesOf(names)

(* C12: with numeric = Auto the result is a phrase exactly for a magnitude *)
(* below 10 seconds and for a delta whose magnitude in the selected unit   *)
(* (day, week, month, year) rounds to 1, that is from half a unit up to,   *)
(* but not including, one and a half; every other delta is rendered        *)
(* numerically.                                                            *)
C12_Amended ==
  (res.op = "format" /\ res.config.numeric = Auto) =>
    LET names == SpecialNames_forLocale(res.config.locale)
        m == magnitude(res.diff)
        past == res.diff < 0
    IN IF m < 10 THEN res.result = names.now
       ELSE IF 43200 <= m /\ m < 129600
       THEN res.result = IF past THEN names.yesterday ELSE names.tomorrow
       ELSE IF 302400 <= m /\ m < 907200
       THEN res.result = IF past THEN names.lastWeek ELSE names.nextWeek
       ELSE IF 1314000 <= m /\ m < 3942000
       THEN res.result = IF past THEN names.lastMonth ELSE names.nextMonth
       ELSE IF 15768000 <= m /\ m < 47304000
       THEN res.result = IF past THEN names.lastYear ELSE names.nextYear
       ELSE res.result \notin phrasesOf(names)

C12_Witness ==
  /\ res.op = "format"
  /\ res.config.numeric = Auto
  /\ res.config.locale.raw = T_en
  /\ res.diff = 0 - 100000
  /\ res.result = <<"y","e","s","t","e","r","d","a","y">>

(* C13: a past delta of N days, N >= 2, gives "N days ago" in English and  *)
(* "vor N Tagen" in German (long style).                                   *)
C13_DaysAgo ==
  (res.op = "format" /\ res.config.style = Long /\ res.diff < 0
     /\ 129600 <= magnitude(res.diff) /\ magnitude(res.diff) < 302400) =>
    LET n == natToString((2 * magnitude(res.diff) + 86400) \div 172800)
    IN /\ res.config.locale.tag.language = T_en =>
            res.result = n \o <<" ","d","a","y","s"," ","a","g","o">>
       /\ res.config.locale.tag.language = T_de =>
            res.result = <<"v","o","r"," ">> \o n \o <<" ","T","a","g","e","n">>

(* the index in units of the first unit whose share of the magnitude       *)
(* satisfies test; 0 when there is none                                    *)
firstUnit(m, test(_, _)) ==
  LET hits == {i \in DOMAIN units : test(m, units[i].seconds)}
  IN IF hits = {} THEN 0 ELSE CHOOSE i \in hits : \A j \in hits : i <= j

exceedsHalf(m, seconds) == 2 * m > seconds

atLeastHalf(m, seconds) == 2 * m >= seconds

selectedAs(i) ==
  IF i = 0 THEN res.unit = Second /\ res.value = Rat(res.diff, 1)
  ELSE /\ res.unit = units[i].unit
       /\ res.value = Rat(res.diff, units[i].seconds)

(* C20 as stated: selectUnit returns the first of year, month, week, day,  *)
(* hour, minute, second whose share of |delta| exceeds 0.5, with delta     *)
(* divided by its seconds, and (Second, delta) when there is none.         *)
C20_Original ==
  res.op = "selectUnit" =>
    selectedAs(firstUnit(magnitude(res.diff), exceedsHalf))

(* C20: selectUnit returns the first of year, month, week, day, hour,      *)
(* minute, second whose share of |delta| is at least 0.5, with delta       *)
(* divided by its seconds, and (Second, delta) when there is none.         *)
C20_Amended ==
  res.op = "selectUnit" =>
    selectedAs(firstUnit(magnitude(res.diff), atLeastHalf))

C20_Witness ==
  /\ res.op = "selectUnit"
  /\ res.diff = 0 - 30
  /\ res.unit = Minute
  /\ res.value = Rat(0 - 30, 60)

----------------------------------------------------------------------------
(* translateWith and translateArgs on an engine with loaded templates *)

K_t1 == <<"t","1">>

K_t2 == <<"t","2">>

K_t3 == <<"t","3">>

K_p1 == <<"p","1">>

K_p2 == <<"p","2">>

K_p3 == <<"p","3">>

N_a == <<"a">>

N_b == <<"b">>

N_ab == <<"a","-","b">>

Tpl_ab == <<"{","{","a","}","}","-","{","{","b","}","}">>

Tpl_aac == <<"{","{","a","}","}","{","{","a","}","}","{","{","c","}","}">>

Tpl_dash == <<"{","{","a","-","b","}","}"," ","{","a","}","}">>

Tpl_sd == <<"%","s","+","%","d">>

Tpl_pct == <<"5","%","%"," ","%","s">>

Tpl_f == <<"%","f"," ","%","s">>

DocT ==
  JObject(K_t1 :> JString(Tpl_ab) @@ K_t2 :> JString(Tpl_aac)
            @@ K_t3 :> JString(Tpl_dash) @@ K_p1 :> JString(Tpl_sd)
            @@ K_p2 :> JString(Tpl_pct) @@ K_p3 :> JString(Tpl_f))

TemplateKeys == {K_t1, K_t2, K_t3, K_p1, K_p2, K_p3, K_zz}

NamedValues ==
  { <<>>,
    << <<N_a, <<"X">> >>, <<N_b, <<"Y">> >> >>,
    << <<N_a, <<"{","{","b","}","}">> >>, <<N_b, <<"Y">> >> >>,
    << <<N_ab, <<"Z">> >> >>,
    << <<N_a, <<"$","&">> >> >> }

PositionalValues ==
  { <<>>, << <<"A">> >>, << <<"A">>, <<"B">> >>, << <<"%","s">>, <<"B">> >>,
    << <<"A">>, <<"B">>, <<"C">> >>, << <<"$","&">> >> }

TranslateWith ==
  \E key \in TemplateKeys, values \in NamedValues :
    /\ isSome(i18n)
    /\ res' = [op |-> "translateWith", key |-> key, values |-> values,
               result |-> IF impl = "Belt"
                          THEN translateWith(i18n[1], key, values)
                          ELSE translateWith_Dict(heap, i18n[1], key, values)]
    /\ UNCHANGED <<impl, wasm, heap, builder, i18n, cat, written, saved, track, ops>>

TranslateArgs ==
  \E key \in TemplateKeys, args \in PositionalValues :
    /\ isSome(i18n)
    /\ res' = [op |-> "translateArgs", key |-> key, args |-> args,
               result |-> IF impl = "Belt"
                          THEN translateArgs(i18n[1], key, args)
                          ELSE translateArgs_Dict(heap, i18n[1], key, args)]
    /\ UNCHANGED <<impl, wasm, heap, builder, i18n, cat, written, saved, track, ops>>

InitInterpolate ==
  /\ InitCommon
  /\ wasm = WasmAbsent
  /\ track = FALSE

NextInterpolate ==
  \/ WithLocalesFrom({<<T_en>>})
  \/ FromBuilder
  \/ LoadTranslationsFrom({<<T_en, DocT>>})
  \/ TranslateWith
  \/ TranslateArgs

SpecInterpolate == InitInterpolate /\ [][NextInterpolate]_vars

(* the template translate resolves for a key in the engine the caller holds *)
resolvedTemplate(key) ==
  IF impl = "Belt" THEN translate(i18n[1], key)
  ELSE translate_Dict(heap, i18n[1], key)

(* the entries of values whose {{name}} stands at position i of template *)
namedAt(template, values, i) ==
  {n \in DOMAIN values :
     /\ i + Len(values[n][1]) + 3 <= Len(template)
     /\ SubSeq(template, i, i + Len(values[n][1]) + 3)
          = <<"{", "{">> \o values[n][1] \o <<"}", "}">>}

(* template with every {{name}} of a named value replaced, the rest kept *)
RECURSIVE substituted(_, _, _)
substituted(template, values, i) ==
  IF i > Len(template) THEN <<>>
  ELSE IF namedAt(template, values, i) # {}
  THEN values[CHOOSE n \in namedAt(template, values, i) : TRUE][2]
         \o substituted(template, values,
              i + Len(values[CHOOSE n \in namedAt(template, values, i) : TRUE][1])
                + 4)
  ELSE <<template[i]>> \o substituted(template, values, i + 1)

reversed(s) == [i \in DOMAIN s |-> s[Len(s) + 1 - i]]

translateWithOf(key, values) ==
  IF impl = "Belt" THEN translateWith(i18n[1], key, values)
  ELSE translateWith_Dict(heap, i18n[1], key, values)

(* C21: translateWith returns the resolved template with every {{name}}    *)
(* whose name is a named value replaced by that value and everything else  *)
(* verbatim, and the order of the named values makes no difference         *)
C21_NamedPlaceholders ==
  res.op = "translateWith" =>
    /\ res.result = substituted(resolvedTemplate(res.key), res.values, 1)
    /\ res.result = translateWithOf(res.key, reversed(res.values))

(* template with the i-th %s/%d replaced by the i-th argument, %% by %     *)
RECURSIVE positional(_, _, _, _)
positional(template, args, i, index) ==
  IF i > Len(template) THEN <<>>
  ELSE IF i < Len(template) /\ template[i] = "%" /\ template[i + 1] = "%"
  THEN <<"%">> \o positional(template, args, i + 2, index)
  ELSE IF i < Len(template) /\ template[i] = "%"
          /\ template[i + 1] \in {"s", "d"}
  THEN (IF index < Len(args) THEN args[index + 1]
        ELSE SubSeq(template, i, i + 1))
         \o positional(template, args, i + 2, index + 1)
  ELSE <<template[i]>> \o positional(template, args, i + 1, index)

(* C22: translateArgs replaces the i-th %s/%d by the i-th argument, turns  *)
(* %% into % without taking an argument, leaves surplus placeholders and   *)
(* ignores surplus arguments, and nothing else takes an argument           *)
C22_PositionalPlaceholders ==
  res.op = "translateArgs" =>
    res.result = positional(resolvedTemplate(res.key), res.args, 1, 0)

----------------------------------------------------------------------------
(* hasKey on the engine *)

HasKey ==
  \E key \in ObsKeys :
    /\ isSome(i18n)
    /\ res' = [op |-> "hasKey", key |-> key,
               result |-> IF impl = "Belt" THEN hasKey(i18n[1], key)
                          ELSE hasKey_Dict(heap, i18n[1], key)]
    /\ UNCHANGED <<impl, wasm, heap, builder, i18n, cat, written, saved, track, ops>>

InitHasKey ==
  /\ InitCommon
  /\ wasm = WasmAbsent
  /\ track = FALSE

NextHasKey ==
  \/ WithLocales
  \/ WithDefaultLocale
  \/ WithFallback
  \/ FromBuilder
  \/ SetLocale
  \/ LoadTranslations
  \/ HasKey

SpecHasKey == InitHasKey /\ [][NextHasKey]_vars

(* C23: hasKey is false exactly when no catalog of translate's lookup      *)
(* chain has a string for the key                                          *)
C23_HasKeyDetectsAbsence ==
  res.op = "hasKey" => (res.result = FALSE <=> noStringInChain(res.key))

----------------------------------------------------------------------------
(* C24: select returns Other for every number when the bare language of    *)
(* the locale has no rule in the pure table, with or without the           *)
(* accelerated evaluator and whatever the evaluator returns                *)
C24_UnknownLanguageIsOther ==
  (res.op = "select" /\ ~isSome(getRuleForLocale(res.locale))) =>
    res.result = Other

----------------------------------------------------------------------------
(* Rules.ru on the operands of whole numbers *)

MaxCount == 130

RulesRu ==
  \E k \in 0..MaxCount :
    /\ res' = [op |-> "Rules.ru", n |-> k,
               result |-> Rules_ru(getOperands(Int2Num(k)))]
    /\ UNCHANGED <<impl, wasm, heap, builder, i18n, cat, written, saved, track, ops>>

InitRules ==
  /\ InitCommon
  /\ impl = "Belt"
  /\ wasm = WasmAbsent
  /\ track = FALSE

NextRules == RulesRu

SpecRules == InitRules /\ [][NextRules]_vars

(* C25: for a whole number n >= 0 the Russian rule gives One iff           *)
(* n mod 10 = 1 and n mod 100 # 11, Few iff n mod 10 is 2..4 and n mod 100 *)
(* is not 12..14, Many for every other n; never Other, Zero or Two         *)
C25_RussianRule ==
  res.op = "Rules.ru" =>
    /\ res.result = One <=> (res.n % 10 = 1 /\ res.n % 100 # 11)
    /\ res.result = Few <=> (res.n % 10 \in 2..4 /\ res.n % 100 \notin 12..14)
    /\ res.result = Many <=>
         ~(res.n % 10 = 1 /\ res.n % 100 # 11)
           /\ ~(res.n % 10 \in 2..4 /\ res.n % 100 \notin 12..14)
    /\ res.result \notin {Other, Zero, Two}

(* 112 ends in 2 and is still Many *)
C25_Witness ==
  /\ res.op = "Rules.ru"
  /\ res.n = 112
  /\ res.result = Many

----------------------------------------------------------------------------
(* the locales that have a catalog in the engine the caller holds *)
catalogKeys ==
  IF impl = "Belt" THEN DOMAIN i18n[1].catalogs
  ELSE DOMAIN heap[i18n[1].catalogs]

(* C26: in every engine state reached from make by setLocale and           *)
(* successful loadTranslations calls, the locales that have a catalog are  *)
(* exactly the configured locales                                          *)
C26_CatalogsAreConfiguredLocales ==
  isSome(i18n) => catalogKeys = configuredKeys

----------------------------------------------------------------------------
(* the builder is used again after fromBuilder has returned an engine *)

WithLocalesLater ==
  \E ls \in LocaleLists :
    /\ isSome(i18n)
    /\ IF impl = "Belt"
       THEN builder' = withLocales(builder, ls) /\ heap' = heap
       ELSE builder' = withLocales_Dict(heap, builder, ls).v
            /\ heap' = withLocales_Dict(heap, builder, ls).h
    /\ res' = [op |-> "withLocales"]
    /\ UNCHANGED <<impl, wasm, i18n, cat, written, saved, track, ops>>

WithDefaultLocaleLater ==
  \E l \in DefaultInputs :
    /\ isSome(i18n)
    /\ IF impl = "Belt"
       THEN builder' = withDefaultLocale(builder, l) /\ heap' = heap
       ELSE builder' = withDefaultLocale_Dict(heap, builder, l).v
            /\ heap' = withDefaultLocale_Dict(heap, builder, l).h
    /\ res' = [op |-> "withDefaultLocale"]
    /\ UNCHANGED <<impl, wasm, i18n, cat, written, saved, track, ops>>

WithFallbackLater ==
  \E p \in FallbackInputs :
    /\ isSome(i18n)
    /\ fallbackCount < MaxFallbacks + 1
    /\ IF impl = "Belt"
       THEN builder' = withFallback(builder, p[1], p[2]) /\ heap' = heap
       ELSE builder' = withFallback_Dict(heap, builder, p[1], p[2]).v
            /\ heap' = withFallback_Dict(heap, builder, p[1], p[2]).h
    /\ res' = [op |-> "withFallback"]
    /\ UNCHANGED <<impl, wasm, i18n, cat, written, saved, track, ops>>

WithObjectNotationLater ==
  \E enabled \in BOOLEAN :
    /\ isSome(i18n)
    /\ IF impl = "Belt"
       THEN builder' = withObjectNotation(builder, enabled) /\ heap' = heap
       ELSE builder' = withObjectNotation_Dict(heap, builder, enabled).v
            /\ heap' = withObjectNotation_Dict(heap, builder, enabled).h
    /\ res' = [op |-> "withObjectNotation"]
    /\ UNCHANGED <<impl, wasm, i18n, cat, written, saved, track, ops>>

InitReuse ==
  /\ InitCommon
  /\ wasm = WasmAbsent
  /\ track = FALSE

NextReuse ==
  \/ WithLocales
  \/ WithFallback
  \/ FromBuilder
  \/ SetLocale
  \/ LoadTranslations
  \/ WithLocalesLater
  \/ WithDefaultLocaleLater
  \/ WithFallbackLater
  \/ WithObjectNotationLater

SpecReuse == InitReuse /\ [][NextReuse]_vars

(* the config of engine e, its dictionaries read from heap h *)
configOf(h, e) ==
  IF impl = "Belt" THEN e.config
  ELSE [locales |-> e.config.locales,
        defaultLocale |-> e.config.defaultLocale,
        fallbacks |-> h[e.config.fallbacks],
        objectNotation |-> e.config.objectNotation]

(* what setLocale resolves each locale to, and what translate answers then *)
resolvedOf(h, e, tag) ==
  IF impl = "Belt" THEN getLocale(setLocale(e, Locale_fromString(tag)[1]))
  ELSE getLocale_Dict(setLocale_Dict(h, e, tag).v)

translatedOf(h, e, tag, key) ==
  IF impl = "Belt"
  THEN translate(setLocale(e, Locale_fromString(tag)[1]), key)
  ELSE translate_Dict(h, setLocale_Dict(h, e, tag).v, key)

builderOps ==
  {"withLocales", "withDefaultLocale", "withFallback", "withObjectNotation"}

(* C27: once fromBuilder has returned an engine, a later call on the same  *)
(* builder changes neither the engine's config nor what setLocale and      *)
(* translate answer on it                                                  *)
C27_BuilderReuseLeavesEngine ==
  [][(isSome(i18n) /\ res'.op \in builderOps) =>
       /\ configOf(heap', i18n'[1]) = configOf(heap, i18n[1])
       /\ \A tag \in SetLocaleInputs :
            /\ resolvedOf(heap', i18n'[1], tag) = resolvedOf(heap, i18n[1], tag)
            /\ \A key \in ObsKeys :
                 translatedOf(heap', i18n'[1], tag, key)
                   = translatedOf(heap, i18n[1], tag, key)]_vars

----------------------------------------------------------------------------
(* loading documents whose root keys contain a "." *)

DocDot == JObject(K_ab :> JString(S_y) @@ K_hi :> JString(S_A))

DottedLoadInputs == {<<T_en, DocDot>>, <<T_de, DocB>>, <<T_en, DocA>>}

WithObjectNotation ==
  \E enabled \in BOOLEAN :
    /\ i18n = None
    /\ IF impl = "Belt"
       THEN builder' = withObjectNotation(builder, enabled) /\ heap' = heap
       ELSE builder' = withObjectNotation_Dict(heap, builder, enabled).v
            /\ heap' = withObjectNotation_Dict(heap, builder, enabled).h
    /\ res' = [op |-> "withObjectNotation"]
    /\ UNCHANGED <<impl, wasm, i18n, cat, written, saved, track, ops>>

InitLoad ==
  /\ InitCommon
  /\ wasm = WasmAbsent
  /\ track = FALSE

NextLoad ==
  \/ WithLocales
  \/ WithObjectNotation
  \/ FromBuilder
  \/ SetLocale
  \/ LoadTranslationsFrom(DottedLoadInputs)
  \/ Translate

SpecLoad == InitLoad /\ [][NextLoad]_vars

(* the root members of a JSON object whose value is a string *)
stringMembers(json) ==
  {key \in DOMAIN json.obj : json.obj[key].j = "string"}

(* C28: after a successful loadTranslations(engine, L, json) for a         *)
(* configured L, translate with currentLocale = L returns, for every root  *)
(* member of json whose value is a string, that string under the member's  *)
(* own key, dotted keys included, whatever objectNotation is               *)
C28_RootStringsRetrievable ==
  (/\ res.op = "loadTranslations"
   /\ res.ok
   /\ res.locale \in configuredKeys) =>
    \A key \in stringMembers(res.json) :
      translatedOf(heap, i18n[1], res.locale, key) = res.json.obj[key].s

----------------------------------------------------------------------------
catGetString(h, c, key) ==
  IF impl = "Belt" THEN Catalog_getString(c, key)
  ELSE Catalog_getString_Dict(h, c, key)

(* C29: Catalog.set(c, k, v) keeps every string stored under another key   *)
(* k2 that does not have k as a dot-prefix: getString answers for k2 as    *)
(* before, also when k2 is a proper dot-prefix of k                        *)
C29_SetKeepsOtherKeys ==
  [][(isSome(cat) /\ res'.op = "set") =>
       \A k2 \in ObsKeys :
         (/\ res'.key \notin prefixesOf(k2)
          /\ isSome(catGetString(heap, cat[1], k2))) =>
           catGetString(heap', cat'[1], k2) = catGetString(heap, cat[1], k2)]_vars

----------------------------------------------------------------------------
(* the first locale of translate's lookup chain whose catalog has a string *)
(* for the key                                                             *)
resolvingLocale(key) ==
  IF isSome(stringIn(curKey, key)) THEN Some(curKey)
  ELSE IF isSome(fbKey) /\ isSome(stringIn(fbKey[1], key)) THEN fbKey
  ELSE IF isSome(stringIn(defKey, key)) THEN Some(defKey)
  ELSE None

(* C30: when translate resolves singularKey from a Plural entry of some    *)
(* catalog of its lookup chain, translatePlural uses the forms of that     *)
(* entry, not the literal singularKey / pluralKey                          *)
C30_PluralAlongChain ==
  (/\ res.op = "translatePlural"
   /\ isSome(i18n)
   /\ isSome(resolvingLocale(res.singular))
   /\ entryIn(resolvingLocale(res.singular)[1], res.singular)[1].type
        = "Plural") =>
    res.result =
      replaceFirstPlaceholder(
        getOr(pluralForm(entryIn(resolvingLocale(res.singular)[1],
                                 res.singular)[1],
                         selectedCategory),
              entryIn(resolvingLocale(res.singular)[1], res.singular)[1].other),
        Float_toString(res.count))

====
